---- MODULE Spec2Model ----
(***************************************************************************)
(* Smart playlist compiler of xbmc/playlists/SmartPlayList.cpp.            *)
(*                                                                         *)
(* A playlist is a media type and a tree of rule combinations.  The SQL    *)
(* text a compile returns is kept as a sequence of tokens: "(", ")",       *)
(* "NOT (", " AND ", " OR " and opaque rule fragments, so concatenation    *)
(* of std::string is concatenation of token sequences and the empty        *)
(* string is <<>>.                                                         *)
(*                                                                         *)
(* The playlist store (the .xsp files CSmartPlaylist::Load reads) is the   *)
(* variable store.  Playlist names and file paths are numbered 1..N; the   *)
(* empty path returned for an unknown name is NoFile.                      *)
(***************************************************************************)
EXTENDS Integers, Sequences, FiniteSets, TLC

VARIABLES
  store,     \* file -> the persisted playlist: exists, ok (loads), type, match, rules
  xsp,       \* the CSmartPlaylist object under compile: file, type, root
  compiles,  \* results of the CSmartPlaylist::GetWhereClause calls made so far
  folders,   \* results of the CSmartPlaylist::GetVirtualFolders calls made so far
  ruleCall,  \* a CSmartPlaylistRule with the arguments of the call made on it
  returned,  \* what that call returned
  artist,    \* a CArtist object that scraped artists are merged into
  dialog     \* the CGUIDialogRefreshSettings window and the Show call on it

vars == <<store, xsp, compiles, folders, ruleCall, returned, artist, dialog>>

----------------------------------------------------------------------------
(* Bounds of the model *)

NumPlaylists == 2    \* files in the playlist store
MaxRules == 2        \* rules per combination
MaxCombinations == 1 \* child combinations of the root combination
MaxCompiles == 2     \* top-level compiles of the same playlist object
MaxCallDepth == 4    \* nested playlist calls the call stack holds
MaxMerges == 2       \* scraped artists merged into one artist
MaxShows == 2        \* calls of CGUIDialogRefreshSettings::Show
MaxChanges == 2      \* settings the user changes while the dialog is open
MaxValues == 3       \* values of one rule
MaxInput == 5        \* characters of the input CSmartPlaylistRule::Validate is given

Files == 1..NumPlaylists
NoFile == 0

----------------------------------------------------------------------------
(* Fields, operators, media types *)

FieldPlaylist == "playlist"
FieldVirtualFolder == "virtualfolder"
FieldTitle == "title"
FieldArtist == "artist"
FieldAlbumArtist == "albumartist"
FieldRole == "role"
FieldGenre == "genre"
FieldPath == "path"
FieldNone == "none"

OPERATOR_EQUALS == "is"
OPERATOR_DOES_NOT_EQUAL == "isnot"

CombinationAnd == "and"
CombinationOr == "or"

TypeSet == {"songs", "mixed", "musicvideos", "movies", ""}

\* CMediaTypes::FromString: the media type of a playlist type string
MediaTypeFromString(strType) ==
  CASE strType = "songs" -> "song"
    [] strType = "albums" -> "album"
    [] strType = "artists" -> "artist"
    [] strType = "musicvideos" -> "musicvideo"
    [] strType = "movies" -> "movie"
    [] strType = "tvshows" -> "tvshow"
    [] strType = "episodes" -> "episode"
    [] strType \in {"song", "album", "artist", "music"} -> strType
    [] OTHER -> "none"

\* DatabaseUtils::GetField(field, mediaType, DatabaseQueryPartWhere) is not empty
HasWhereField(field, mediaType) ==
  \/ field = FieldTitle /\ mediaType \in {"song", "album", "musicvideo", "movie"}
  \/ field = FieldArtist /\ mediaType \in {"song", "album", "artist", "musicvideo"}
  \/ field = FieldAlbumArtist /\ mediaType \in {"song", "album", "artist"}
  \/ field = FieldGenre /\ mediaType \in {"song", "music", "musicvideo", "movie"}
  \/ field = "source" /\ mediaType = "music"
  \/ field = "album" /\ mediaType \in {"song", "album", "musicvideo"}
  \/ field = FieldRole /\ mediaType = "music"
  \/ field = FieldPath /\ mediaType \in {"song", "music", "musicvideo", "movie"}
  \/ field = "lastplayed"
       /\ mediaType \in {"song", "album", "movie", "musicvideo", "tvshow", "episode"}
  \/ field = "dateadded"
       /\ mediaType \in {"song", "album", "artist", "movie", "musicvideo", "tvshow",
                         "episode"}
  \/ field = "playcount"
       /\ mediaType \in {"song", "album", "movie", "musicvideo", "episode"}
  \/ field \in {"id", "mpaarating", "time"}
       /\ mediaType \in {"song", "album", "artist", "movie", "musicvideo", "tvshow",
                         "episode"}
  \/ field \in {"numepisodes", "numwatched"}
       /\ mediaType = "tvshow"

\* DatabaseUtils::GetNativeTable: the table of the music database a field belongs to
GetNativeTable(field, mediaType) ==
  IF mediaType = "album"
  THEN IF field \in {FieldArtist, FieldAlbumArtist} THEN "artist"
       ELSE IF field \in {FieldGenre, FieldPath} THEN "song"
       ELSE ""
  ELSE IF mediaType = "artist"
  THEN IF field = FieldGenre THEN "song"
       ELSE IF field = "album" THEN "album"
       ELSE ""
  ELSE ""

----------------------------------------------------------------------------
(* Strings of characters.  A parameter a function parses is a sequence of  *)
(* one-character strings.                                                  *)
(***************************************************************************)

Digits == {"0", "1", "2", "3", "4", "5", "6", "7", "8", "9"}

RECURSIVE ParseDigits(_, _, _)
\* the value of the digits of str from position i up to the first other character
ParseDigits(str, i, acc) ==
  LET DigitValue(c) ==
        CASE c = "0" -> 0 [] c = "1" -> 1 [] c = "2" -> 2 [] c = "3" -> 3
          [] c = "4" -> 4 [] c = "5" -> 5 [] c = "6" -> 6 [] c = "7" -> 7
          [] c = "8" -> 8 [] c = "9" -> 9
  IN IF i > Len(str) \/ str[i] \notin Digits THEN acc
     ELSE ParseDigits(str, i + 1, acc * 10 + DigitValue(str[i]))

RECURSIVE SkipSpaces(_, _)
SkipSpaces(str, i) ==
  IF i <= Len(str) /\ str[i] = " " THEN SkipSpaces(str, i + 1) ELSE i

\* std::strtol(str, NULL, 10): leading spaces, an optional sign, then digits;
\* 0 when no digit follows
Strtol(str) ==
  LET i == SkipSpaces(str, 1)
      signed == i <= Len(str) /\ str[i] \in {"-", "+"}
      magnitude == ParseDigits(str, IF signed THEN i + 1 ELSE i, 0)
  IN IF signed /\ str[i] = "-" THEN 0 - magnitude ELSE magnitude

\* StringUtils::Trim: without the spaces at both ends
RECURSIVE TrimRight(_)
TrimRight(str) ==
  IF str # <<>> /\ str[Len(str)] = " " THEN TrimRight(SubSeq(str, 1, Len(str) - 1))
  ELSE str

Trim(str) == TrimRight(SubSeq(str, SkipSpaces(str, 1), Len(str)))

\* the capital letters
Upper ==
  <<"A", "B", "C", "D", "E", "F", "G", "H", "I", "J", "K", "L", "M",
    "N", "O", "P", "Q", "R", "S", "T", "U", "V", "W", "X", "Y", "Z">>

\* ::tolower of one character
ToLower(c) ==
  LET Lower ==
        <<"a", "b", "c", "d", "e", "f", "g", "h", "i", "j", "k", "l", "m",
          "n", "o", "p", "q", "r", "s", "t", "u", "v", "w", "x", "y", "z">>
  IN IF \E k \in DOMAIN Upper : Upper[k] = c
     THEN Lower[CHOOSE k \in DOMAIN Upper : Upper[k] = c]
     ELSE c

\* StringUtils::EqualsNoCase
EqualsNoCase(str1, str2) ==
  /\ Len(str1) = Len(str2)
  /\ \A k \in DOMAIN str1 : ToLower(str1[k]) = ToLower(str2[k])

\* the first position from i where delimiter starts in str, 0 if there is none
RECURSIVE Find(_, _, _)
Find(str, delimiter, i) ==
  IF i + Len(delimiter) - 1 > Len(str) THEN 0
  ELSE IF SubSeq(str, i, i + Len(delimiter) - 1) = delimiter THEN i
  ELSE Find(str, delimiter, i + 1)

RECURSIVE SplitRest(_, _)
SplitRest(str, delimiter) ==
  LET k == Find(str, delimiter, 1) IN
  IF k = 0 THEN <<str>>
  ELSE <<SubSeq(str, 1, k - 1)>>
         \o SplitRest(SubSeq(str, k + Len(delimiter), Len(str)), delimiter)

\* StringUtils::Split: the pieces between the delimiters, none for the empty input
Split(input, delimiter) ==
  IF input = <<>> THEN <<>> ELSE SplitRest(input, delimiter)

----------------------------------------------------------------------------
(* The catalog of fields: name, field and validator of each entry          *)
(***************************************************************************)

fields ==
  <<
     [string |-> <<"n", "o", "n", "e">>,
      field |-> "none", validator |-> "NULL"],
     [string |-> <<"f", "i", "l", "e", "n", "a", "m", "e">>,
      field |-> "filename", validator |-> "NULL"],
     [string |-> <<"p", "a", "t", "h">>,
      field |-> "path", validator |-> "NULL"],
     [string |-> <<"a", "l", "b", "u", "m">>,
      field |-> "album", validator |-> "NULL"],
     [string |-> <<"a", "l", "b", "u", "m", "a", "r", "t", "i", "s", "t">>,
      field |-> "albumartist", validator |-> "NULL"],
     [string |-> <<"a", "r", "t", "i", "s", "t">>,
      field |-> "artist", validator |-> "NULL"],
     [string |-> <<"t", "r", "a", "c", "k", "n", "u", "m", "b", "e", "r">>,
      field |-> "tracknumber", validator |-> "IsPositiveInteger"],
     [string |-> <<"r", "o", "l", "e">>,
      field |-> "role", validator |-> "NULL"],
     [string |-> <<"c", "o", "m", "m", "e", "n", "t">>,
      field |-> "comment", validator |-> "NULL"],
     [string |-> <<"r", "e", "v", "i", "e", "w">>,
      field |-> "review", validator |-> "NULL"],
     [string |-> <<"t", "h", "e", "m", "e", "s">>,
      field |-> "themes", validator |-> "NULL"],
     [string |-> <<"m", "o", "o", "d", "s">>,
      field |-> "moods", validator |-> "NULL"],
     [string |-> <<"s", "t", "y", "l", "e", "s">>,
      field |-> "styles", validator |-> "NULL"],
     [string |-> <<"t", "y", "p", "e">>,
      field |-> "type", validator |-> "NULL"],
     [string |-> <<"c", "o", "m", "p", "i", "l", "a", "t", "i", "o", "n">>,
      field |-> "compilation", validator |-> "NULL"],
     [string |-> <<"l", "a", "b", "e", "l">>,
      field |-> "label", validator |-> "NULL"],
     [string |-> <<"t", "i", "t", "l", "e">>,
      field |-> "title", validator |-> "NULL"],
     [string |-> <<"s", "o", "r", "t", "t", "i", "t", "l", "e">>,
      field |-> "sorttitle", validator |-> "NULL"],
     [string |-> <<"o", "r", "i", "g", "i", "n", "a", "l", "t", "i", "t", "l", "e">>,
      field |-> "originaltitle", validator |-> "NULL"],
     [string |-> <<"y", "e", "a", "r">>,
      field |-> "year", validator |-> "IsPositiveInteger"],
     [string |-> <<"t", "i", "m", "e">>,
      field |-> "time", validator |-> "IsTime"],
     [string |-> <<"p", "l", "a", "y", "c", "o", "u", "n", "t">>,
      field |-> "playcount", validator |-> "IsPositiveInteger"],
     [string |-> <<"l", "a", "s", "t", "p", "l", "a", "y", "e", "d">>,
      field |-> "lastplayed", validator |-> "NULL"],
     [string |-> <<"i", "n", "p", "r", "o", "g", "r", "e", "s", "s">>,
      field |-> "inprogress", validator |-> "NULL"],
     [string |-> <<"r", "a", "t", "i", "n", "g">>,
      field |-> "rating", validator |-> "ValidateRating"],
     [string |-> <<"u", "s", "e", "r", "r", "a", "t", "i", "n", "g">>,
      field |-> "userrating", validator |-> "ValidateMyRating"],
     [string |-> <<"v", "o", "t", "e", "s">>,
      field |-> "votes", validator |-> "IsPositiveInteger"],
     [string |-> <<"t", "o", "p", "2", "5", "0">>,
      field |-> "top250", validator |-> "NULL"],
     [string |-> <<"m", "p", "a", "a", "r", "a", "t", "i", "n", "g">>,
      field |-> "mpaarating", validator |-> "NULL"],
     [string |-> <<"d", "a", "t", "e", "a", "d", "d", "e", "d">>,
      field |-> "dateadded", validator |-> "NULL"],
     [string |-> <<"g", "e", "n", "r", "e">>,
      field |-> "genre", validator |-> "NULL"],
     [string |-> <<"p", "l", "o", "t">>,
      field |-> "plot", validator |-> "NULL"],
     [string |-> <<"p", "l", "o", "t", "o", "u", "t", "l", "i", "n", "e">>,
      field |-> "plotoutline", validator |-> "NULL"],
     [string |-> <<"t", "a", "g", "l", "i", "n", "e">>,
      field |-> "tagline", validator |-> "NULL"],
     [string |-> <<"s", "e", "t">>,
      field |-> "set", validator |-> "NULL"],
     [string |-> <<"d", "i", "r", "e", "c", "t", "o", "r">>,
      field |-> "director", validator |-> "NULL"],
     [string |-> <<"a", "c", "t", "o", "r">>,
      field |-> "actor", validator |-> "NULL"],
     [string |-> <<"w", "r", "i", "t", "e", "r", "s">>,
      field |-> "writers", validator |-> "NULL"],
     [string |-> <<"a", "i", "r", "d", "a", "t", "e">>,
      field |-> "airdate", validator |-> "NULL"],
     [string |-> <<"h", "a", "s", "t", "r", "a", "i", "l", "e", "r">>,
      field |-> "hastrailer", validator |-> "NULL"],
     [string |-> <<"s", "t", "u", "d", "i", "o">>,
      field |-> "studio", validator |-> "NULL"],
     [string |-> <<"c", "o", "u", "n", "t", "r", "y">>,
      field |-> "country", validator |-> "NULL"],
     [string |-> <<"t", "v", "s", "h", "o", "w">>,
      field |-> "tvshow", validator |-> "NULL"],
     [string |-> <<"s", "t", "a", "t", "u", "s">>,
      field |-> "status", validator |-> "NULL"],
     [string |-> <<"s", "e", "a", "s", "o", "n">>,
      field |-> "season", validator |-> "IsPositiveInteger"],
     [string |-> <<"e", "p", "i", "s", "o", "d", "e">>,
      field |-> "episode", validator |-> "IsPositiveInteger"],
     [string |-> <<"n", "u", "m", "e", "p", "i", "s", "o", "d", "e", "s">>,
      field |-> "numepisodes", validator |-> "IsPositiveInteger"],
     [string |-> <<"n", "u", "m", "w", "a", "t", "c", "h", "e", "d">>,
      field |-> "numwatched", validator |-> "IsPositiveInteger"],
     [string |-> <<"v", "i", "d", "e", "o", "r", "e", "s", "o", "l", "u", "t", "i", "o", "n">>,
      field |-> "videoresolution", validator |-> "NULL"],
     [string |-> <<"v", "i", "d", "e", "o", "c", "o", "d", "e", "c">>,
      field |-> "videocodec", validator |-> "NULL"],
     [string |-> <<"v", "i", "d", "e", "o", "a", "s", "p", "e", "c", "t">>,
      field |-> "videoaspect", validator |-> "NULL"],
     [string |-> <<"a", "u", "d", "i", "o", "c", "h", "a", "n", "n", "e", "l", "s">>,
      field |-> "audiochannels", validator |-> "NULL"],
     [string |-> <<"a", "u", "d", "i", "o", "c", "o", "d", "e", "c">>,
      field |-> "audiocodec", validator |-> "NULL"],
     [string |-> <<"a", "u", "d", "i", "o", "l", "a", "n", "g", "u", "a", "g", "e">>,
      field |-> "audiolanguage", validator |-> "NULL"],
     [string |-> <<"a", "u", "d", "i", "o", "c", "o", "u", "n", "t">>,
      field |-> "audiocount", validator |-> "IsPositiveInteger"],
     [string |-> <<"s", "u", "b", "t", "i", "t", "l", "e", "c", "o", "u", "n", "t">>,
      field |-> "subtitlecount", validator |-> "IsPositiveInteger"],
     [string |-> <<"s", "u", "b", "t", "i", "t", "l", "e", "l", "a", "n", "g", "u", "a", "g", "e">>,
      field |-> "subtitlelanguage", validator |-> "NULL"],
     [string |-> <<"r", "a", "n", "d", "o", "m">>,
      field |-> "random", validator |-> "NULL"],
     [string |-> <<"p", "l", "a", "y", "l", "i", "s", "t">>,
      field |-> "playlist", validator |-> "NULL"],
     [string |-> <<"v", "i", "r", "t", "u", "a", "l", "f", "o", "l", "d", "e", "r">>,
      field |-> "virtualfolder", validator |-> "NULL"],
     [string |-> <<"t", "a", "g">>,
      field |-> "tag", validator |-> "NULL"],
     [string |-> <<"i", "n", "s", "t", "r", "u", "m", "e", "n", "t", "s">>,
      field |-> "instruments", validator |-> "NULL"],
     [string |-> <<"b", "i", "o", "g", "r", "a", "p", "h", "y">>,
      field |-> "biography", validator |-> "NULL"],
     [string |-> <<"b", "o", "r", "n">>,
      field |-> "born", validator |-> "NULL"],
     [string |-> <<"b", "a", "n", "d", "f", "o", "r", "m", "e", "d">>,
      field |-> "bandformed", validator |-> "NULL"],
     [string |-> <<"d", "i", "s", "b", "a", "n", "d", "e", "d">>,
      field |-> "disbanded", validator |-> "NULL"],
     [string |-> <<"d", "i", "e", "d">>,
      field |-> "died", validator |-> "NULL"],
     [string |-> <<"a", "r", "t", "i", "s", "t", "t", "y", "p", "e">>,
      field |-> "artisttype", validator |-> "NULL"],
     [string |-> <<"g", "e", "n", "d", "e", "r">>,
      field |-> "gender", validator |-> "NULL"],
     [string |-> <<"d", "i", "s", "a", "m", "b", "i", "g", "u", "a", "t", "i", "o", "n">>,
      field |-> "disambiguation", validator |-> "NULL"],
     [string |-> <<"s", "o", "u", "r", "c", "e">>,
      field |-> "source", validator |-> "NULL"],
     [string |-> <<"d", "i", "s", "c", "t", "i", "t", "l", "e">>,
      field |-> "disctitle", validator |-> "NULL"],
     [string |-> <<"i", "s", "b", "o", "x", "s", "e", "t">>,
      field |-> "isboxset", validator |-> "NULL"],
     [string |-> <<"t", "o", "t", "a", "l", "d", "i", "s", "c", "s">>,
      field |-> "totaldiscs", validator |-> "IsPositiveInteger"],
     [string |-> <<"a", "r", "t", "i", "s", "t", "i", "d">>,
      field |-> "artistid", validator |-> "IsPositiveInteger"],
     [string |-> <<"a", "l", "b", "u", "m", "i", "d">>,
      field |-> "albumid", validator |-> "IsPositiveInteger"],
     [string |-> <<"s", "o", "n", "g", "i", "d">>,
      field |-> "songid", validator |-> "IsPositiveInteger"],
     [string |-> <<"s", "o", "u", "r", "c", "e", "i", "d">>,
      field |-> "sourceid", validator |-> "IsPositiveInteger"],
     [string |-> <<"g", "e", "n", "r", "e", "i", "d">>,
      field |-> "genreid", validator |-> "IsPositiveInteger"],
     [string |-> <<"a", "r", "t", "i", "s", "t", " ", "g", "e", "n", "r", "e">>,
      field |-> "artist genre", validator |-> "NULL"],
     [string |-> <<"a", "r", "t", "i", "s", "t", " ", "s", "c", "r", "a", "p", "e", "d">>,
      field |-> "artist scraped", validator |-> "NULL"],
     [string |-> <<"a", "r", "t", "i", "s", "t", " ", "m", "b", "i", "d">>,
      field |-> "artist mbid", validator |-> "NULL"],
     [string |-> <<"a", "r", "t", "i", "s", "t", " ", "m", "o", "o", "d", "s">>,
      field |-> "artist moods", validator |-> "NULL"],
     [string |-> <<"b", "o", "r", "n", "/", "f", "o", "r", "m", "e", "d">>,
      field |-> "born/formed", validator |-> "NULL"],
     [string |-> <<"d", "i", "e", "d", "/", "d", "i", "s", "b", "a", "n", "d", "e", "d">>,
      field |-> "died/disbanded", validator |-> "NULL"],
     [string |-> <<"y", "e", "a", "r", "s", " ", "a", "c", "t", "i", "v", "e">>,
      field |-> "years active", validator |-> "NULL"],
     [string |-> <<"a", "l", "b", "u", "m", " ", "g", "e", "n", "r", "e">>,
      field |-> "album genre", validator |-> "NULL"],
     [string |-> <<"a", "l", "b", "u", "m", " ", "s", "c", "r", "a", "p", "e", "d">>,
      field |-> "album scraped", validator |-> "NULL"],
     [string |-> <<"a", "l", "b", "u", "m", " ", "m", "b", "i", "d">>,
      field |-> "album mbid", validator |-> "NULL"],
     [string |-> <<"r", "e", "l", "e", "a", "s", "e", "g", "r", "o", "u", "p", " ", "i", "d">>,
      field |-> "releasegroup id", validator |-> "NULL"],
     [string |-> <<"a", "l", "b", "u", "m", " ", "m", "o", "o", "d", "s">>,
      field |-> "album moods", validator |-> "NULL"],
     [string |-> <<"a", "l", "b", "u", "m", " ", "s", "t", "y", "l", "e", "s">>,
      field |-> "album styles", validator |-> "NULL"],
     [string |-> <<"a", "l", "b", "u", "m", " ", "r", "a", "t", "i", "n", "g">>,
      field |-> "album rating", validator |-> "ValidateRating"],
     [string |-> <<"a", "l", "b", "u", "m", " ", "u", "s", "e", "r", "r", "a", "t", "i", "n", "g">>,
      field |-> "album userrating", validator |-> "ValidateMyRating"],
     [string |-> <<"a", "l", "b", "u", "m", " ", "v", "o", "t", "e", "s">>,
      field |-> "album votes", validator |-> "IsPositiveInteger"],
     [string |-> <<"a", "l", "b", "u", "m", " ", "y", "e", "a", "r">>,
      field |-> "album year", validator |-> "IsPositiveInteger"]
  >>

RULE_VALUE_SEPARATOR == <<" ", "/", " ">>

RECURSIVE FieldOfName(_, _)
\* TranslateField(const char *field): the loop over the catalog from entry k
FieldOfName(field, k) ==
  IF k > Len(fields) THEN FieldNone
  ELSE IF EqualsNoCase(field, fields[k].string) THEN fields[k].field
  ELSE FieldOfName(field, k + 1)

TranslateField(field) == FieldOfName(field, 1)

RECURSIVE NameOfFieldOrEmpty(_, _)
\* variant: a field that is not in the catalog has the empty name
NameOfFieldOrEmpty(field, k) ==
  IF k > Len(fields) THEN <<>>
  ELSE IF field = fields[k].field THEN fields[k].string
  ELSE NameOfFieldOrEmpty(field, k + 1)

RECURSIVE NameOfField(_, _)
\* TranslateField(int field): the loop over the catalog from entry k
NameOfField(field, k) ==
  IF k > Len(fields) THEN <<"n", "o", "n", "e">>
  ELSE IF field = fields[k].field THEN fields[k].string
  ELSE NameOfField(field, k + 1)

TranslateFieldToString(field) == NameOfField(field, 1)

----------------------------------------------------------------------------
(* CSmartPlaylistRule::Validate and the validators of the catalog           *)
(***************************************************************************)

\* StringValidation::IsPositiveInteger: digits, spaces around them allowed
IsPositiveInteger(input) ==
  /\ Trim(input) # <<>>
  /\ \A k \in DOMAIN Trim(input) : Trim(input)[k] \in Digits

\* StringValidation::IsTime, for inputs without ":" and without a unit
IsTime(input) == IsPositiveInteger(input)

\* strtod has to read the whole trimmed input: end points to its '\0'
ValidateRating(input) ==
  LET strRating == Trim(input)
      rating == ParseDigits(strRating, 1, 0)
  IN /\ \A k \in DOMAIN strRating : strRating[k] \in Digits
     /\ rating >= 0
     /\ rating <= 10

ValidateMyRating(input) ==
  LET rating == Strtol(Trim(input))
  IN IsPositiveInteger(input) /\ rating <= 10

\* validator(*it, data)
CallValidator(validator, input) ==
  CASE validator = "IsPositiveInteger" -> IsPositiveInteger(input)
    [] validator = "IsTime" -> IsTime(input)
    [] validator = "ValidateRating" -> ValidateRating(input)
    [] validator = "ValidateMyRating" -> ValidateMyRating(input)

RECURSIVE ValidatorOf(_, _)
\* check if there's a validator for this rule: the loop from entry k
ValidatorOf(m_field, k) ==
  IF k > Len(fields) THEN "NULL"
  ELSE IF m_field = fields[k].field THEN fields[k].validator
  ELSE ValidatorOf(m_field, k + 1)

\* variant: only the first value is validated
ValidateFirstValue(validator, values, i) ==
  values = <<>> \/ CallValidator(validator, values[1])

RECURSIVE ValidateValues(_, _, _)
\* validate every value separately, from value i
ValidateValues(validator, values, i) ==
  IF i > Len(values) THEN TRUE
  ELSE IF ~CallValidator(validator, values[i]) THEN FALSE
  ELSE ValidateValues(validator, values, i + 1)

\* data is <<>> for NULL and <<rule>> for a rule
Validate(input, data) ==
  IF data = <<>> THEN TRUE
  ELSE LET validator == ValidatorOf(data[1].field, 1) IN
       IF validator = "NULL" THEN TRUE
       ELSE ValidateValues(validator, Split(input, RULE_VALUE_SEPARATOR), 1)

----------------------------------------------------------------------------
(* CSmartPlaylistRule::GetVideoResolutionQuery                              *)
(* The returned text " IN (SELECT DISTINCT idFile FROM streamdetails WHERE *)
(* iVideoWidth <check>)" is kept as the check on iVideoWidth.              *)
(***************************************************************************)

INT_MAX == 2147483647

\* variant: the bands start above the named resolution
ResolutionBandAbove(iRes) ==
  IF iRes > 2160 THEN [min |-> 1921, max |-> INT_MAX]
  ELSE IF iRes > 1080 THEN [min |-> 1281, max |-> 1920]
  ELSE IF iRes > 720 THEN [min |-> 961, max |-> 1280]
  ELSE IF iRes > 540 THEN [min |-> 721, max |-> 960]
  ELSE [min |-> 0, max |-> 720]

\* int min, max of the band of widths the resolution falls in
ResolutionBand(iRes) ==
  IF iRes >= 2160 THEN [min |-> 1921, max |-> INT_MAX]
  ELSE IF iRes >= 1080 THEN [min |-> 1281, max |-> 1920]
  ELSE IF iRes >= 720 THEN [min |-> 961, max |-> 1280]
  ELSE IF iRes >= 540 THEN [min |-> 721, max |-> 960]
  ELSE [min |-> 0, max |-> 720]

\* variant: less than compares with the upper end of the band
ResolutionCheckBelowMax(operator, band) ==
  CASE operator = OPERATOR_EQUALS ->
         <<[compare |-> ">=", bound |-> band.min], " AND ",
           [compare |-> "<=", bound |-> band.max]>>
    [] operator = OPERATOR_DOES_NOT_EQUAL ->
         <<[compare |-> "<", bound |-> band.min], " OR ",
           [compare |-> ">", bound |-> band.max]>>
    [] operator = "lessthan" -> <<[compare |-> "<", bound |-> band.max]>>
    [] operator = "greaterthan" -> <<[compare |-> ">", bound |-> band.max]>>
    [] OTHER -> <<>>

\* switch (m_operator): the comparisons of iVideoWidth appended to retVal
ResolutionCheck(operator, band) ==
  CASE operator = OPERATOR_EQUALS ->
         <<[compare |-> ">=", bound |-> band.min], " AND ",
           [compare |-> "<=", bound |-> band.max]>>
    [] operator = OPERATOR_DOES_NOT_EQUAL ->
         <<[compare |-> "<", bound |-> band.min], " OR ",
           [compare |-> ">", bound |-> band.max]>>
    [] operator = "lessthan" -> <<[compare |-> "<", bound |-> band.min]>>
    [] operator = "greaterthan" -> <<[compare |-> ">", bound |-> band.max]>>
    [] OTHER -> <<>>

GetVideoResolutionQuery(rule, parameter) ==
  ResolutionCheck(rule.operator, ResolutionBand(Strtol(parameter)))

----------------------------------------------------------------------------
(* CSmartPlaylistRule::FormatWhereClause                                    *)
(* A std::string is a sequence of tokens; the pieces that are literals in  *)
(* the source are one token each and an empty std::string adds no token.   *)
(***************************************************************************)

Tok(str) == IF str = "" THEN <<>> ELSE <<str>>

\* CSmartPlaylistRule::GetField: the column of the field, "" when it has none
GetField(field, strType) ==
  IF HasWhereField(field, MediaTypeFromString(strType)) THEN field ELSE ""

\* the operator and the value, as PrepareSQL formats them
FormatParameter(rule, oper, param) ==
  IF rule.field = "time"
  THEN <<oper, "seconds">> \o param
  ELSE <<oper>> \o param

FormatLinkQuery(field, table, mediaType, mediaField, parameter) ==
  <<" EXISTS (", field, "_link JOIN ", table>> \o Tok(mediaField)
    \o parameter \o <<mediaType, ")">>

\* CDatabaseQueryRule::FormatWhereClause: <column> <operator> <parameter>
GenericFormatWhereClause(rule, negate, oper, param, strType) ==
  IF GetField(rule.field, strType) = "" THEN <<>>
  ELSE <<GetField(rule.field, strType)>> \o Tok(negate)
         \o FormatParameter(rule, oper, param)

NullableOperators ==
  {"lessthan", "before", "notinthelast"}

\* the name of the view of a media type, "" for the other types
TableOf(strType) ==
  CASE strType = "songs" -> "songview"
    [] strType = "albums" -> "albumview"
    [] strType = "artists" -> "artistview"
    [] strType = "movies" -> "movie_view"
    [] strType = "musicvideos" -> "musicvideo_view"
    [] strType = "tvshows" -> "tvshow_view"
    [] strType = "episodes" -> "episode_view"
    [] OTHER -> ""

\* variant: the comparison is not widened to the rows that hold NULL
NullOrBare(isNullOr, field, parameter) == Tok(field) \o parameter

\* field IS NULL OR field <parameter>
NullOr(isNullOr, field, parameter) ==
  Tok(field) \o <<isNullOr>> \o Tok(field) \o parameter

\* the EXISTS subquery on streamdetails of one stream property
StreamDetailQuery(table, negate, column, parameter) ==
  Tok(negate) \o <<" EXISTS (SELECT 1 FROM streamdetails WHERE streamdetails.idFile = ">>
    \o Tok(table) \o <<".idFile AND ", column>> \o parameter \o <<")">>

\* the query after the branches on strType (lines 918-1051)
TypeQuery(rule, negate, parameter, strType) ==
  LET field == rule.field
      nullable == rule.operator \in NullableOperators
      id == GetField("id", strType)
      link(f, t, mediaType, mediaField) ==
        Tok(negate) \o FormatLinkQuery(f, t, mediaType, mediaField, parameter)
  IN
  CASE strType = "songs" ->
         IF field = "lastplayed" /\ nullable
         THEN NullOr(" is NULL or ", GetField(field, strType), parameter)
         ELSE <<>>
    [] strType = "albums" ->
         IF field = "lastplayed" /\ nullable
         THEN NullOr(" is NULL or ", GetField(field, strType), parameter)
         ELSE IF field = "disctitle"
         THEN Tok(negate) \o <<" EXISTS (SELECT 1 FROM song WHERE song.idAlbum = ">>
                \o Tok(id) \o <<" AND song.strDiscSubtitle">> \o parameter \o <<")">>
         ELSE <<>>
    [] strType = "movies" ->
         IF field = FieldGenre THEN link("genre", "genre", "movie", id)
         ELSE IF field = "director" THEN link("director", "actor", "movie", id)
         ELSE IF field = "actor" THEN link("actor", "actor", "movie", id)
         ELSE IF field = "writers" THEN link("writer", "actor", "movie", id)
         ELSE IF field = "studio" THEN link("studio", "studio", "movie", id)
         ELSE IF field = "country" THEN link("country", "country", "movie", id)
         ELSE IF field \in {"lastplayed", "dateadded"} /\ nullable
         THEN NullOr(" IS NULL OR ", GetField(field, strType), parameter)
         ELSE IF field = "tag" THEN link("tag", "tag", "movie", id)
         ELSE <<>>
    [] strType = "musicvideos" ->
         IF field = FieldGenre THEN link("genre", "genre", "musicvideo", id)
         ELSE IF field \in {FieldArtist, FieldAlbumArtist}
         THEN link("actor", "actor", "musicvideo", id)
         ELSE IF field = "studio" THEN link("studio", "studio", "musicvideo", id)
         ELSE IF field = "director" THEN link("director", "actor", "musicvideo", id)
         ELSE IF field \in {"lastplayed", "dateadded"} /\ nullable
         THEN NullOr(" IS NULL OR ", GetField(field, strType), parameter)
         ELSE IF field = "tag" THEN link("tag", "tag", "musicvideo", id)
         ELSE <<>>
    [] strType = "tvshows" ->
         IF field = FieldGenre THEN link("genre", "genre", "tvshow", id)
         ELSE IF field = "director" THEN link("director", "actor", "tvshow", id)
         ELSE IF field = "actor" THEN link("actor", "actor", "tvshow", id)
         ELSE IF field = "studio" THEN link("studio", "studio", "tvshow", id)
         ELSE IF field = "mpaarating"
         THEN Tok(negate) \o <<" (">> \o Tok(GetField(field, strType))
                \o parameter \o <<")">>
         ELSE IF field \in {"lastplayed", "dateadded"} /\ nullable
         THEN NullOr(" IS NULL OR ", GetField(field, strType), parameter)
         ELSE IF field = "playcount"
         THEN <<"CASE WHEN COALESCE(">>
                \o Tok(GetField("numepisodes", strType)) \o <<" - ">>
                \o Tok(GetField("numwatched", strType))
                \o <<", 0) > 0 THEN 0 ELSE 1 END ">> \o parameter
         ELSE IF field = "tag" THEN link("tag", "tag", "tvshow", id)
         ELSE <<>>
    [] strType = "episodes" ->
         IF field = FieldGenre THEN link("genre", "genre", "tvshow", "episode_view.idShow")
         ELSE IF field = "tag" THEN link("tag", "tag", "tvshow", "episode_view.idShow")
         ELSE IF field = "director" THEN link("director", "actor", "episode", id)
         ELSE IF field = "actor" THEN link("actor", "actor", "episode", id)
         ELSE IF field = "writers" THEN link("writer", "actor", "episode", id)
         ELSE IF field \in {"lastplayed", "dateadded"} /\ nullable
         THEN NullOr(" IS NULL OR ", GetField(field, strType), parameter)
         ELSE IF field = "studio"
         THEN link("studio", "studio", "tvshow", "episode_view.idShow")
         ELSE IF field = "mpaarating"
         THEN Tok(negate) \o <<" (">> \o Tok(GetField(field, strType))
                \o parameter \o <<")">>
         ELSE <<>>
    [] OTHER -> <<>>

\* the query after the branches on the stream properties (lines 1052-1069)
StreamQuery(rule, negate, param, parameter, strType, query) ==
  LET field == rule.field
      table == TableOf(strType)
  IN
  IF field = "videoresolution"
  THEN Tok(table) \o <<".idFile">> \o Tok(negate)
         \o <<" IN (SELECT DISTINCT idFile FROM streamdetails WHERE iVideoWidth ">>
         \o GetVideoResolutionQuery(rule, param) \o <<")">>
  ELSE IF field = "audiochannels"
  THEN StreamDetailQuery(table, negate, "iAudioChannels ", parameter)
  ELSE IF field = "videocodec"
  THEN StreamDetailQuery(table, negate, "strVideoCodec ", parameter)
  ELSE IF field = "audiocodec"
  THEN StreamDetailQuery(table, negate, "strAudioCodec ", parameter)
  ELSE IF field = "audiolanguage"
  THEN StreamDetailQuery(table, negate, "strAudioLanguage ", parameter)
  ELSE IF field = "subtitlelanguage"
  THEN StreamDetailQuery(table, negate, "strSubtitleLanguage ", parameter)
  ELSE IF field = "videoaspect"
  THEN StreamDetailQuery(table, negate, "fVideoAspect ", parameter)
  ELSE IF field = "audiocount"
  THEN StreamDetailQuery(table, negate, "COUNT(AUDIO) ", parameter)
  ELSE IF field = "subtitlecount"
  THEN StreamDetailQuery(table, negate, "COUNT(SUBTITLE) ", parameter)
  ELSE query

\* playcount IS stored as NULL OR number IN video db
PlaycountIsNullable(rule, param, strType) ==
  /\ rule.field = "playcount"
  /\ strType \notin {"songs", "albums", "tvshows"}
  /\ \/ rule.operator = OPERATOR_EQUALS /\ param = <<"0">>
     \/ rule.operator = OPERATOR_DOES_NOT_EQUAL /\ param # <<"0">>
     \/ rule.operator = "lessthan"

FormatWhereClause(rule, negate, oper, param, strType) ==
  LET parameter == FormatParameter(rule, oper, param)
      typed == TypeQuery(rule, negate, parameter, strType)
      streams == StreamQuery(rule, negate, param, parameter, strType, typed)
      query == IF PlaycountIsNullable(rule, param, strType)
               THEN NullOr(" IS NULL OR ", GetField("playcount", strType), parameter)
               ELSE streams
  IN IF Len(query) = 0
     THEN GenericFormatWhereClause(rule, negate, oper, param, strType)
     ELSE query

----------------------------------------------------------------------------
(* Rule fragments *)

\* CSmartPlaylistRule::FormatWhereClause through CDatabaseQueryRule::GetWhereClause
RuleWhereClause(rule, strType) ==
  IF strType = "musicvideos" /\ rule.field = FieldArtist
  THEN <<"actor_link">>
  ELSE IF HasWhereField(rule.field, MediaTypeFromString(strType))
       THEN <<rule.field>>
       ELSE <<>>

\* variant: rules of every media type may need the combined clause
IsFieldRuleSimpleAnyType(field, mediaType) ==
  IF field = FieldNone \/ mediaType = "none" THEN TRUE
  ELSE IF mediaType \in {"album", "song"} /\ field \in {FieldArtist, FieldAlbumArtist}
       THEN FALSE
  ELSE IF mediaType = "album" /\ field = "source" THEN TRUE
  ELSE HasWhereField(field, mediaType)

IsFieldRuleSimple(field, mediaType) ==
  IF field = FieldNone \/ mediaType = "none" THEN TRUE
  ELSE IF mediaType \notin {"artist", "album", "song"} THEN TRUE
  ELSE IF mediaType \in {"album", "song"} /\ field \in {FieldArtist, FieldAlbumArtist}
       THEN FALSE
  ELSE IF mediaType = "album" /\ field = "source" THEN TRUE
  ELSE HasWhereField(field, mediaType)

IsFieldNative(field, mediaType, strTable) ==
  GetNativeTable(field, mediaType) # "" /\ GetNativeTable(field, mediaType) = strTable

Separator(m_type) == IF m_type = CombinationAnd THEN " AND " ELSE " OR "

CombineClause(m_type, original, clause) ==
  IF clause = <<>> THEN original
  ELSE IF original = <<>> THEN clause
  ELSE original \o <<Separator(m_type), "(">> \o clause \o <<")">>

----------------------------------------------------------------------------
(* CDatabase::ExistsSubQuery: a correlated EXISTS subquery.  The text up to *)
(* the correlation is one token, named after the table and its joins.      *)
(***************************************************************************)

ExistsSubQuery(tablename, param) ==
  [tablename |-> tablename, param |-> param, join |-> <<>>, where |-> <<>>]

AppendJoin(sub, strJoin) == [sub EXCEPT !.join = Append(@, strJoin)]

AppendWhere(sub, strWhere) ==
  [sub EXCEPT !.where = IF @ = <<>> THEN strWhere ELSE @ \o <<" AND ">> \o strWhere]

\* "SELECT 1 FROM <tablename> <join> WHERE <param>"
SelectFrom(sub) ==
  CASE sub.tablename = "song" -> "song"
    [] sub.tablename = "path" -> "path"
    [] sub.tablename = "album" -> "album"
    [] sub.tablename = "album_artist" /\ sub.join = <<>> -> "album_artist"
    [] sub.tablename = "album_artist" -> "album_artist JOIN artist"
    [] sub.tablename = "song_artist AS sa1" -> "song_artist AS sa1 JOIN role"
    [] sub.tablename = "song_genre" -> "song_genre JOIN genre"
    [] sub.tablename = "album_source" -> "album_source JOIN source"
    [] sub.tablename = "song_artist" /\ sub.join = <<>> -> "song_artist"
    [] sub.tablename = "song_artist" /\ sub.join = <<"artist">> -> "song_artist JOIN artist"
    [] sub.tablename = "song_artist" /\ sub.join = <<"role">> -> "song_artist JOIN role"
    [] OTHER -> "song_artist JOIN artist JOIN role"

BuildSQL(sub) ==
  <<"EXISTS (", SelectFrom(sub)>>
    \o (IF sub.where = <<>> THEN <<>> ELSE <<" AND ">> \o sub.where)
    \o <<")">>

\* the tokens that open a subquery on the song_artist and album_artist tables
SongArtistRoute ==
  {"song_artist", "song_artist JOIN artist", "song_artist JOIN role",
   "song_artist JOIN artist JOIN role"}
AlbumArtistRoute == {"album_artist", "album_artist JOIN artist"}

----------------------------------------------------------------------------
(* CSmartPlaylistRule::FormatParameters: the values of m_parameter, a       *)
(* sequence of values here, formatted into one query.                      *)
(***************************************************************************)

RECURSIVE GenericFormatParameters(_, _, _, _, _)

\* CDatabaseQueryRule::FormatParameters: each value formatted by
\* FormatWhereClause in parentheses, from value i on
GenericFormatParameters(rule, negate, oper, strType, i) ==
  IF i > Len(rule.parameter) THEN <<>>
  ELSE <<"(">> \o FormatWhereClause(rule, negate, oper, rule.parameter[i], strType)
         \o <<")">>
         \o (IF i = Len(rule.parameter) THEN <<>>
             ELSE IF negate = "" THEN <<" OR ">> ELSE <<" AND ">>)
         \o GenericFormatParameters(rule, negate, oper, strType, i + 1)

\* variant: the values of a negated rule are gathered as those of a plain rule
GathersParametersAlways(negate) == TRUE

\* if (negate.empty()): gather the parameters together into one clause
GathersParameters(negate) == negate = ""

FormatParameters(rule, negate, oper, strType) ==
  LET existsQuery ==
        IF strType = "songs"
        THEN AppendJoin(ExistsSubQuery("song_genre",
                                       "song_genre.idSong = songview.idSong"),
                        "genre")
        ELSE AppendJoin(ExistsSubQuery("album_source",
                                       "album_source.idAlbum = albumview.idAlbum"),
                        "source")
      \* for (auto it : m_parameter)
      RECURSIVE Loop(_, _)
      Loop(i, wholeQuery) ==
        IF i > Len(rule.parameter) THEN wholeQuery
        ELSE
          LET clause == FormatWhereClause(rule, "", oper, rule.parameter[i], "music")
          IN IF GathersParameters(negate)
             THEN Loop(i + 1,
                       (IF wholeQuery # <<>> THEN wholeQuery \o <<" OR ">> ELSE <<>>)
                         \o clause)
             ELSE Loop(i + 1,
                       (IF wholeQuery # <<>> THEN wholeQuery \o <<" AND ">> ELSE <<>>)
                         \o Tok(negate) \o BuildSQL(AppendWhere(existsQuery, clause)))
      looped ==
        IF \/ strType = "songs" /\ rule.field = FieldGenre
           \/ strType = "albums" /\ rule.field = "source"
        THEN Loop(1, <<>>)
        ELSE <<>>
      wholeQuery ==
        IF GathersParameters(negate) /\ looped # <<>>
        THEN BuildSQL(AppendWhere(existsQuery,
                                  IF Len(rule.parameter) > 1
                                  THEN <<"(">> \o looped \o <<")">>
                                  ELSE looped))
        ELSE looped
  IN IF wholeQuery = <<>>
     THEN GenericFormatParameters(rule, negate, oper, strType, 1)
     ELSE wholeQuery

----------------------------------------------------------------------------
(* CSmartPlaylistRuleCombination::GetRolesWhereClause                       *)
(***************************************************************************)

IsNegated(operator) ==
  operator \in {"doesnotcontain", OPERATOR_DOES_NOT_EQUAL}

\* the last rule of the combination that is a role rule of that value, or 0
LastRoleRule(self, value) ==
  LET found == {i \in DOMAIN self.rules :
                  self.rules[i].field = FieldRole /\ self.rules[i].parameter = value}
  IN IF found = {} THEN 0 ELSE CHOOSE i \in found : \A j \in found : j <= i

\* variant: a role rule "artist" is taken for a role of its own
NamedRoleRulesAndArtist(self) ==
  SelectSeq(self.rules, LAMBDA r :
    r.field = FieldRole /\ r.parameter \notin {"albumartist", "%"})

\* roleRules.m_rules.push_back(*it): the role rules of the last branch
NamedRoleRules(self) ==
  SelectSeq(self.rules, LAMBDA r :
    r.field = FieldRole /\ r.parameter \notin {"albumartist", "artist", "%"})

RECURSIVE RoleClauseLoop(_, _, _, _)
RoleClauseLoop(m_type, roleRules, i, roleClause) ==
  IF i > Len(roleRules) THEN roleClause
  ELSE
    LET rolequery == IF HasWhereField(roleRules[i].field, "music")
                     THEN <<"role.strRole">> ELSE <<>>
        songRoleX == AppendWhere(
                       AppendJoin(ExistsSubQuery("song_artist AS sa1", "sa1"), "role"),
                       <<"r1.strRole">>)
    IN RoleClauseLoop(m_type, roleRules, i + 1,
         IF rolequery = <<>> THEN roleClause
         ELSE IF m_type = CombinationAnd
         THEN (IF roleClause = <<>> THEN rolequery
               ELSE CombineClause(m_type, roleClause, BuildSQL(songRoleX)))
         ELSE (IF roleClause = <<>> THEN rolequery
               ELSE roleClause \o <<" OR ">> \o rolequery))

\* variant: both routes may end up disabled
KeepOneRouteNot(bAlbumArtists, bSongArtists) == bAlbumArtists

\* But at least one of album artists and song artists must be true
KeepOneRoute(bAlbumArtists, bSongArtists) ==
  IF ~bAlbumArtists /\ ~bSongArtists THEN TRUE ELSE bAlbumArtists

\* variant: the operator of the role rule is not looked at
RouteFlagsWithoutNegation(bAlbumartistRule, bArtistRule, bNegAlbumartistRule, bNegArtistRule) ==
  [bAlbumArtists |-> KeepOneRoute(~bArtistRule, ~bAlbumartistRule),
   bSongArtists |-> ~bAlbumartistRule]

\* Validate role rule logic, when no role rule is "%"
RouteFlags(bAlbumartistRule, bArtistRule, bNegAlbumartistRule, bNegArtistRule) ==
  LET bAlbumArtists == ~((bNegAlbumartistRule /\ bAlbumartistRule)
                          \/ (~bNegArtistRule /\ bArtistRule))
      bSongArtists == ~((bNegArtistRule /\ bArtistRule)
                         \/ (~bNegAlbumartistRule /\ bAlbumartistRule))
  IN [bAlbumArtists |-> KeepOneRoute(bAlbumArtists, bSongArtists),
      bSongArtists |-> bSongArtists]

\* variant: the role rules are kept beside the rule for all roles
WantedRoleRulesKept(bWildRoleRule, roleRules) == roleRules

\* roleRules.clear(): all roles wanted, overrides other role rules
WantedRoleRules(bWildRoleRule, roleRules) ==
  IF bWildRoleRule THEN <<>> ELSE roleRules

GetRolesWhereClause(self) ==
  LET anyRole == \E i \in DOMAIN self.rules : self.rules[i].field = FieldRole
      bWildRoleRule == LastRoleRule(self, "%") # 0
      a == LastRoleRule(self, "albumartist")
      b == LastRoleRule(self, "artist")
      roleRules == WantedRoleRules(bWildRoleRule, NamedRoleRules(self))
      flags == IF bWildRoleRule
               THEN [bAlbumArtists |-> TRUE, bSongArtists |-> TRUE]
               ELSE RouteFlags(a # 0 /\ self.type = CombinationAnd,
                               b # 0 /\ self.type = CombinationAnd,
                               a # 0 /\ IsNegated(self.rules[a].operator),
                               b # 0 /\ IsNegated(self.rules[b].operator))
  IN IF ~bWildRoleRule /\ roleRules = <<>>
     THEN [roleClause |-> <<"song_artist.idRole = 1">>,
           bAlbumArtists |-> flags.bAlbumArtists,
           bSongArtists |-> flags.bSongArtists,
           bJoinRole |-> FALSE, bRoleRules |-> FALSE]
     ELSE
       LET roleClause == RoleClauseLoop(self.type, roleRules, 1, <<>>)
       IN [roleClause |-> roleClause,
           bAlbumArtists |-> IF roleClause # <<>> /\ flags.bSongArtists
                             THEN FALSE ELSE flags.bAlbumArtists,
           bSongArtists |-> flags.bSongArtists,
           bJoinRole |-> TRUE, bRoleRules |-> anyRole]

----------------------------------------------------------------------------
(* CSmartPlaylistRuleCombination::GetAlbumsWhereClause                      *)
(***************************************************************************)

\* the loop over the rules: the basic clauses of the "artists" and "songs" rules
RECURSIVE AlbumRulesLoop(_, _, _)
AlbumRulesLoop(self, i, acc) ==
  IF i > Len(self.rules) THEN acc
  ELSE
    LET it == self.rules[i] IN
    IF it.field = FieldPath
    THEN LET pathquery == RuleWhereClause(it, "music")
             songPathX == AppendWhere(ExistsSubQuery("path", "path"), pathquery)
         IN AlbumRulesLoop(self, i + 1,
              IF pathquery = <<>> THEN acc
              ELSE [acc EXCEPT !.songSubclause =
                      CombineClause(self.type, @, BuildSQL(songPathX))])
    ELSE IF IsFieldNative(it.field, "album", "artist")
    THEN LET artistquery == RuleWhereClause(it, "artist")
         IN AlbumRulesLoop(self, i + 1,
              IF it.field = FieldArtist
              THEN [acc EXCEPT !.artistField = CombineClause(self.type, @, artistquery)]
              ELSE IF it.field = FieldAlbumArtist
              THEN [acc EXCEPT !.albumartistField =
                      CombineClause(self.type, @, artistquery)]
              ELSE [acc EXCEPT !.artistSubclause =
                      CombineClause(self.type, @, artistquery)])
    ELSE IF IsFieldNative(it.field, "album", "song")
    THEN AlbumRulesLoop(self, i + 1,
           [acc EXCEPT !.songSubclause =
              CombineClause(self.type, @, RuleWhereClause(it, "songs"))])
    ELSE AlbumRulesLoop(self, i + 1, acc)

Parenthesized(clause) == <<"(">> \o clause \o <<")">>

GetAlbumsWhereClause(self) ==
  LET Value(S) == CHOOSE v \in S : TRUE
      \* the clauses on the song side, from the role flags and the basic clauses
      SongSide(roles, acc) ==
        LET albumartistField == acc.albumartistField
            artistField == acc.artistField
            bAlbumartistAndRole ==
              roles.bRoleRules
                /\ (albumartistField # <<>>
                    \/ (roles.bAlbumArtists /\ ~roles.bSongArtists))
            songSub == ExistsSubQuery("song", "song.idAlbum = albumview.idAlbum")
            songArtistSub0 ==
              ExistsSubQuery("song_artist", "song_artist.idSong = song.idSong")
            songArtistSub1 ==
              IF bAlbumartistAndRole
              THEN AppendWhere(songArtistSub0,
                               <<"song_artist.idArtist = album_artist.idArtist">>)
              ELSE IF acc.artistSubclause # <<>> \/ albumartistField # <<>>
                        \/ artistField # <<>>
              THEN AppendJoin(songArtistSub0, "artist")
              ELSE songArtistSub0
            songArtistSub2 ==
              IF roles.roleClause = <<>> THEN songArtistSub1
              ELSE IF roles.bJoinRole
              THEN AppendWhere(AppendJoin(songArtistSub1, "role"),
                               Parenthesized(roles.roleClause))
              ELSE AppendWhere(songArtistSub1, roles.roleClause)
            separate == albumartistField # <<>> /\ artistField # <<>>
            artistSubclause ==
              IF separate THEN acc.artistSubclause
              ELSE CombineClause(self.type,
                     CombineClause(self.type, acc.artistSubclause, albumartistField),
                     artistField)
            artistClauseSong ==
              IF separate
              THEN CombineClause(self.type, acc.artistSubclause, artistField)
              ELSE artistSubclause
            songartistSubclause ==
              IF artistClauseSong # <<>> \/ roles.bRoleRules
              THEN BuildSQL(IF artistClauseSong # <<>> /\ ~bAlbumartistAndRole
                            THEN AppendWhere(songArtistSub2,
                                             Parenthesized(artistClauseSong))
                            ELSE songArtistSub2)
              ELSE <<>>
        IN [bAlbumartistAndRole |-> bAlbumartistAndRole,
            artistClauseAlbum |->
              IF separate
              THEN CombineClause(self.type, acc.artistSubclause, albumartistField)
              ELSE artistSubclause,
            songartistSubclause |-> songartistSubclause,
            songSubSQLNoArtist |->
              IF acc.songSubclause # <<>>
              THEN BuildSQL(AppendWhere(songSub, Parenthesized(acc.songSubclause)))
              ELSE <<>>,
            combined |->
              CombineClause(self.type, acc.songSubclause, songartistSubclause)]
      \* the song subquery over the song clauses and the song artist clause
      SongSubSQL(combined) ==
        IF combined # <<>>
        THEN BuildSQL(AppendWhere(
               ExistsSubQuery("song", "song.idAlbum = albumview.idAlbum"),
               Parenthesized(combined)))
        ELSE <<>>
      \* the album artist subquery
      AlbumartistSubclause(roles, acc, song, songSubSQL) ==
        LET albumArtistSub ==
              AppendJoin(ExistsSubQuery("album_artist",
                                        "album_artist.idAlbum = albumview.idAlbum"),
                         "artist")
            albumArtistSub1 ==
              IF song.artistClauseAlbum # <<>>
              THEN AppendWhere(albumArtistSub, Parenthesized(song.artistClauseAlbum))
              ELSE albumArtistSub
            albumArtistSub2 ==
              IF song.bAlbumartistAndRole THEN AppendWhere(albumArtistSub1, songSubSQL)
              ELSE albumArtistSub1
        IN IF roles.bRoleRules /\ ~roles.bAlbumArtists /\ acc.albumartistField = <<>>
           THEN <<>>
           ELSE BuildSQL(albumArtistSub2)
      \* the clause returned, out of the subqueries built
      Rule(roles, acc, song, songSubSQL, albumartistSubclause) ==
        IF acc.albumartistField # <<>> \/ (roles.bAlbumArtists /\ ~roles.bSongArtists)
        THEN IF roles.bRoleRules THEN albumartistSubclause
             ELSE IF acc.artistField # <<>> \/ ~roles.bAlbumArtists
             THEN CombineClause(self.type, albumartistSubclause, songSubSQL)
             ELSE CombineClause(self.type, albumartistSubclause,
                                song.songSubSQLNoArtist)
        ELSE IF song.songartistSubclause # <<>>
        THEN IF self.type # CombinationAnd
             THEN CombineClause(self.type, albumartistSubclause, songSubSQL)
             ELSE LET rule == CombineClause(self.type, albumartistSubclause,
                                            song.songSubSQLNoArtist)
                  IN (IF rule # <<>> THEN rule \o <<" OR ">> ELSE <<>>) \o songSubSQL
        ELSE IF songSubSQL # <<>> THEN songSubSQL
        ELSE <<>>
  IN Value({
       Value({
         Value({
           Value({Rule(roles, acc, song, songSubSQL, albumartistSubclause) :
                    albumartistSubclause \in
                      {AlbumartistSubclause(roles, acc, song, songSubSQL)}}) :
             songSubSQL \in {SongSubSQL(song.combined)}}) :
           song \in {SongSide(roles, acc)}}) :
         roles \in {GetRolesWhereClause(self)},
         acc \in {AlbumRulesLoop(self, 1,
                    [songSubclause |-> <<>>, artistSubclause |-> <<>>,
                     albumartistField |-> <<>>, artistField |-> <<>>])}})

----------------------------------------------------------------------------
(* CSmartPlaylistRuleCombination::GetSongsWhereClause                       *)
(***************************************************************************)

GetSongsWhereClause(self) ==
  LET Value(S) == CHOOSE v \in S : TRUE
      \* the loop over the rules: the basic clauses of the "artists" and
      \* "albums" rules
      SongRule(it, acc) ==
        IF IsFieldNative(it.field, "album", "artist")
        THEN LET query == RuleWhereClause(it, "artist")
             IN IF it.field = FieldArtist
                THEN [acc EXCEPT !.artistField = CombineClause(self.type, @, query)]
                ELSE IF it.field = FieldAlbumArtist
                THEN [acc EXCEPT !.albumartistField =
                        CombineClause(self.type, @, query)]
                ELSE [acc EXCEPT !.artistSubclause =
                        CombineClause(self.type, @, query)]
        ELSE IF IsFieldNative(it.field, "artist", "album")
        THEN [acc EXCEPT !.albumSubclause =
                CombineClause(self.type, @, RuleWhereClause(it, "albums"))]
        ELSE IF it.field = "source"
        THEN [acc EXCEPT !.albumSourceclause =
                CombineClause(self.type, @, RuleWhereClause(it, "albums"))]
        ELSE acc
      RECURSIVE SongRulesLoop(_, _)
      SongRulesLoop(i, acc) ==
        IF i > Len(self.rules) THEN acc
        ELSE SongRulesLoop(i + 1, SongRule(self.rules[i], acc))
      \* the album subquery, or the source clause alone
      AlbumSubSQL(acc) ==
        IF acc.albumSubclause # <<>>
        THEN BuildSQL(AppendWhere(
               ExistsSubQuery("album", "album.idAlbum = songview.idAlbum"),
               Parenthesized(CombineClause(self.type, acc.albumSubclause,
                                           acc.albumSourceclause))))
        ELSE acc.albumSourceclause
      \* the song artist subquery and the artist clause of the album artist one
      SongArtist(roles, acc) ==
        LET albumartistField == acc.albumartistField
            artistField == acc.artistField
            bAlbumartistOnly ==
              albumartistField # <<>> \/ (roles.bAlbumArtists /\ ~roles.bSongArtists)
            bAlbumartistAndRole == roles.bRoleRules /\ bAlbumartistOnly
            songArtistSub0 ==
              ExistsSubQuery("song_artist", "song_artist.idSong = songview.idSong")
            songArtistSub1 ==
              IF bAlbumartistAndRole
              THEN AppendWhere(songArtistSub0,
                               <<"song_artist.idArtist = album_artist.idArtist">>)
              ELSE IF acc.artistSubclause # <<>> \/ albumartistField # <<>>
                        \/ artistField # <<>>
              THEN AppendJoin(songArtistSub0, "artist")
              ELSE songArtistSub0
            songArtistSub2 ==
              IF roles.roleClause = <<>> THEN songArtistSub1
              ELSE IF roles.bJoinRole
              THEN AppendWhere(AppendJoin(songArtistSub1, "role"),
                               Parenthesized(roles.roleClause))
              ELSE AppendWhere(songArtistSub1, roles.roleClause)
            separate == albumartistField # <<>> /\ artistField # <<>>
            artistSubclause ==
              IF separate THEN acc.artistSubclause
              ELSE CombineClause(self.type,
                     CombineClause(self.type, acc.artistSubclause, albumartistField),
                     artistField)
            artistClauseSong ==
              IF separate
              THEN CombineClause(self.type, acc.artistSubclause, artistField)
              ELSE artistSubclause
        IN [bAlbumartistOnly |-> bAlbumartistOnly,
            bAlbumartistAndRole |-> bAlbumartistAndRole,
            artistClauseAlbum |->
              IF separate
              THEN CombineClause(self.type, acc.artistSubclause, albumartistField)
              ELSE artistSubclause,
            artistClauseSong |-> artistClauseSong,
            songartistSubclause |->
              IF artistClauseSong # <<>> \/ roles.bRoleRules
              THEN BuildSQL(IF artistClauseSong # <<>> /\ ~bAlbumartistAndRole
                            THEN AppendWhere(songArtistSub2,
                                             Parenthesized(artistClauseSong))
                            ELSE songArtistSub2)
              ELSE <<>>]
      \* the album artist subquery
      AlbumartistSubclause(roles, acc, song) ==
        LET albumArtistSub ==
              AppendJoin(ExistsSubQuery("album_artist",
                                        "album_artist.idAlbum = songview.idAlbum"),
                         "artist")
            albumArtistSub1 ==
              IF song.artistClauseAlbum # <<>>
              THEN AppendWhere(albumArtistSub, Parenthesized(song.artistClauseAlbum))
              ELSE albumArtistSub
            albumArtistSub2 ==
              IF song.bAlbumartistAndRole
              THEN AppendWhere(albumArtistSub1, song.songartistSubclause)
              ELSE albumArtistSub1
        IN IF roles.bRoleRules /\ ~roles.bAlbumArtists /\ acc.albumartistField = <<>>
           THEN <<>>
           ELSE BuildSQL(albumArtistSub2)
      \* the full SQL clause, combined with the album rule SQL
      Rule(roles, acc, song, albumartistSubclause, albumSubSQL) ==
        LET rule ==
              IF song.bAlbumartistOnly THEN albumartistSubclause
              ELSE IF roles.bRoleRules THEN song.songartistSubclause
              ELSE IF acc.artistField # <<>> /\ acc.albumartistField # <<>>
              THEN CombineClause(self.type, albumartistSubclause,
                                 song.songartistSubclause)
              ELSE IF song.artistClauseSong # <<>>
              THEN albumartistSubclause \o <<" OR ">> \o song.songartistSubclause
              ELSE <<>>
        IN IF albumSubSQL # <<>> THEN CombineClause(self.type, albumSubSQL, rule)
           ELSE rule
  IN Value({
       Value({
         Value({Rule(roles, acc, song, albumartistSubclause, albumSubSQL) :
                  albumartistSubclause \in {AlbumartistSubclause(roles, acc, song)},
                  albumSubSQL \in {AlbumSubSQL(acc)}}) :
           song \in {SongArtist(roles, acc)}}) :
         roles \in {GetRolesWhereClause(self)},
         acc \in {SongRulesLoop(1,
                    [artistSubclause |-> <<>>, albumartistField |-> <<>>,
                     artistField |-> <<>>, albumSubclause |-> <<>>,
                     albumSourceclause |-> <<>>])}})

----------------------------------------------------------------------------
(* CSmartPlaylistRuleCombination::GetArtistsWhereClause                     *)
(***************************************************************************)

GetArtistsWhereClause(self) ==
  LET Value(S) == CHOOSE v \in S : TRUE
      \* the loop over the rules: the basic clauses of the "albums" and
      \* "songs" rules
      ArtistRule(it, acc) ==
        IF it.field = FieldPath
        THEN LET pathquery == RuleWhereClause(it, "music")
                 songPathX == AppendWhere(ExistsSubQuery("path", "path"), pathquery)
             IN IF pathquery = <<>> THEN acc
                ELSE [acc EXCEPT !.songSubclause =
                        CombineClause(self.type, @, BuildSQL(songPathX)),
                                 !.bSongArtistNeedSong = TRUE]
        ELSE IF it.field = "source"
        THEN [acc EXCEPT !.albumSourceclause =
                CombineClause(self.type, @, RuleWhereClause(it, "albums")),
                         !.bSongArtistNeedSong = TRUE]
        ELSE IF IsFieldNative(it.field, "artist", "song")
        THEN [acc EXCEPT !.songSubclause =
                CombineClause(self.type, @, RuleWhereClause(it, "songs")),
                         !.bSongArtistNeedSong = @ \/ it.field # FieldGenre]
        ELSE IF IsFieldNative(it.field, "artist", "album")
        THEN [acc EXCEPT !.albumSubclause =
                CombineClause(self.type, @, RuleWhereClause(it, "albums")),
                         !.bSongArtistNeedSong = TRUE]
        ELSE acc
      RECURSIVE ArtistRulesLoop(_, _)
      ArtistRulesLoop(i, acc) ==
        IF i > Len(self.rules) THEN acc
        ELSE ArtistRulesLoop(i + 1, ArtistRule(self.rules[i], acc))
      \* the album_artist route, and the song clause and the song_artist
      \* subquery as it leaves them
      AlbumArtistRouteOf(roles, acc) ==
        LET bAlbumArtistNeedSong ==
              acc.songSubclause # <<>> \/ (roles.bJoinRole /\ ~roles.bSongArtists)
            songArtistSub0 ==
              ExistsSubQuery("song_artist",
                             "song_artist.idArtist = artistview.idArtist")
            songArtistSub1 ==
              IF roles.roleClause = <<>> THEN songArtistSub0
              ELSE IF roles.bJoinRole
              THEN AppendWhere(AppendJoin(songArtistSub0, "role"),
                               Parenthesized(roles.roleClause))
              ELSE AppendWhere(songArtistSub0, roles.roleClause)
            \* Album artists only with other role rules
            bAlbumArtistRoles ==
              bAlbumArtistNeedSong /\ roles.bRoleRules /\ roles.bAlbumArtists
                /\ ~roles.bSongArtists
            songArtistSub ==
              IF bAlbumArtistRoles
              THEN AppendWhere(songArtistSub1, <<"song_artist.idSong = song.idSong">>)
              ELSE songArtistSub1
            songSubclause ==
              IF bAlbumArtistRoles
              THEN CombineClause(self.type, acc.songSubclause, BuildSQL(songArtistSub))
              ELSE acc.songSubclause
            songAASub ==
              IF bAlbumArtistNeedSong
              THEN BuildSQL(AppendWhere(
                     ExistsSubQuery("song", "song.idAlbum = album_artist.idAlbum"),
                     Parenthesized(songSubclause)))
              ELSE <<>>
            album_artistClause ==
              IF acc.albumSubclause # <<>>
              THEN BuildSQL(AppendWhere(
                     ExistsSubQuery("album", "album.idAlbum = album_artist.idAlbum"),
                     Parenthesized(
                       CombineClause(self.type,
                         CombineClause(self.type, acc.albumSubclause,
                                       acc.albumSourceclause),
                         songAASub))))
              ELSE IF acc.albumSourceclause # <<>>
              THEN CombineClause(self.type, acc.albumSourceclause, songAASub)
              ELSE songAASub
            albumArtistSub ==
              ExistsSubQuery("album_artist",
                             "album_artist.idArtist = artistview.idArtist")
        IN [songArtistSub |-> songArtistSub,
            songSubclause |-> songSubclause,
            albumArtistSub |->
              IF album_artistClause # <<>>
              THEN AppendWhere(albumArtistSub, Parenthesized(album_artistClause))
              ELSE albumArtistSub]
      \* the song_artist route
      SongArtistRouteOf(acc, route) ==
        LET albumSub ==
              IF acc.albumSubclause # <<>>
              THEN BuildSQL(AppendWhere(
                     ExistsSubQuery("album", "album.idAlbum = song.idAlbum"),
                     Parenthesized(CombineClause(self.type, acc.albumSubclause,
                                                 acc.albumSourceclause))))
              ELSE acc.albumSourceclause
            song_artistClause ==
              IF acc.bSongArtistNeedSong
              THEN BuildSQL(AppendWhere(
                     ExistsSubQuery("song", "song.idSong = song_artist.idSong"),
                     Parenthesized(
                       IF route.songSubclause # <<>>
                       THEN CombineClause(self.type, route.songSubclause, albumSub)
                       ELSE albumSub)))
              ELSE IF route.songSubclause # <<>> THEN route.songSubclause
              ELSE albumSub
        IN IF song_artistClause # <<>>
           THEN AppendWhere(route.songArtistSub, Parenthesized(song_artistClause))
           ELSE route.songArtistSub
      \* Combine album_artist and song_artist clauses
      Rule(roles, route, songArtistSub) ==
        LET rule == IF roles.bAlbumArtists THEN BuildSQL(route.albumArtistSub)
                    ELSE <<>>
        IN IF ~roles.bSongArtists THEN rule
           ELSE IF rule = <<>> THEN BuildSQL(songArtistSub)
           ELSE rule
                  \o (IF ~roles.bJoinRole \/ self.type # CombinationAnd
                      THEN <<" OR ">> ELSE <<" AND ">>)
                  \o BuildSQL(songArtistSub)
  IN Value({
       Value({
         Value({Rule(roles, route, songArtistSub) :
                  songArtistSub \in {SongArtistRouteOf(acc, route)}}) :
           route \in {AlbumArtistRouteOf(roles, acc)}}) :
         roles \in {GetRolesWhereClause(self)},
         acc \in {ArtistRulesLoop(1,
                    [songSubclause |-> <<>>, albumSubclause |-> <<>>,
                     albumSourceclause |-> <<>>, bSongArtistNeedSong |-> FALSE])}})

GetCombinedWhereClause(self, strType) ==
  IF strType = "artists" THEN GetArtistsWhereClause(self)
  ELSE IF strType = "albums" THEN GetAlbumsWhereClause(self)
  ELSE IF strType = "songs" THEN GetSongsWhereClause(self)
  ELSE <<>>

----------------------------------------------------------------------------
(* The playlist store *)

\* CSmartPlaylistDirectory::GetPlaylistByName: the path of the playlist of that name
GetPlaylistByName(name, strType) ==
  IF name \in Files /\ store[name].exists THEN name ELSE NoFile

\* CSmartPlaylist::Load(path) succeeds
LoadOk(playlistFile) == store[playlistFile].ok

\* the CSmartPlaylist object Load(path) fills: XML holds a flat list of rules
Load(playlistFile) ==
  [file |-> playlistFile,
   type |-> store[playlistFile].type,
   root |-> [type |-> store[playlistFile].match,
             combinations |-> <<>>,
             rules |-> store[playlistFile].rules]]

SetType(playlist, type) == [playlist EXCEPT !.type = type]

CheckTypeCompatibility(typeLeft, typeRight) ==
  \/ typeLeft = typeRight
  \/ typeLeft = "mixed" /\ typeRight \in {"songs", "musicvideos"}
  \/ typeRight = "mixed" /\ typeLeft \in {"songs", "musicvideos"}

----------------------------------------------------------------------------
(* CSmartPlaylistRuleCombination::GetWhereClause                            *)
(*                                                                         *)
(* The context threaded through the recursion is the caller's set          *)
(* referencedPlaylists.  Beside it the model keeps a history of the calls  *)
(* (inserted, loaded, expanded, skipped, in call order; references: the   *)
(* playlist rules that named a stored playlist, in the order they were     *)
(* reached, with the currentRule each one gave) and the depth of           *)
(* nested playlist calls; overflow records that the depth passed           *)
(* MaxCallDepth, where the model stops descending.                         *)
(***************************************************************************)

NewContext(referencedPlaylists) ==
  [referencedPlaylists |-> referencedPlaylists,
   inserted |-> <<>>, loaded |-> <<>>, expanded |-> <<>>, skipped |-> <<>>,
   depth |-> 0, deepest |-> 0, overflow |-> FALSE,
   open |-> <<>>, nodes |-> <<>>, references |-> <<>>]

\* history: a call of CSmartPlaylistRuleCombination::GetWhereClause begins
OpenNode(ctx) == [ctx EXCEPT !.open = Append(@, [own |-> <<>>, joined |-> <<>>])]

\* history: rule i of the combination being translated went the given way
Handled(ctx, way, i) == [ctx EXCEPT !.open[Len(ctx.open)][way] = Append(@, i)]

\* history: the call returns, what it did is kept
CloseNode(ctx, node) ==
  LET frame == ctx.open[Len(ctx.open)] IN
  [ctx EXCEPT !.open = SubSeq(@, 1, Len(@) - 1),
              !.nodes = Append(@, [own |-> frame.own, joined |-> frame.joined]
                                    @@ node)]

\* variant: the rule is put in the group twice
JoinRuleTwice(joinedRules, it) == Append(Append(joinedRules, it), it)

\* joinedRules.m_rules.push_back(*it)
JoinRule(joinedRules, it) == Append(joinedRules, it)

\* variant: virtual folder rules are not skipped
IsVirtualFolderRuleNever(rule) == FALSE

\* don't include playlists that are meant to be displayed as virtual folders
IsVirtualFolderRule(rule) == rule.field = FieldVirtualFolder

\* variant: the set is never consulted
AlreadyReferencedNever(playlistFile, referencedPlaylists) == FALSE

\* referencedPlaylists.find(playlistFile) != referencedPlaylists.end()
AlreadyReferenced(playlistFile, referencedPlaylists) ==
  playlistFile \in referencedPlaylists

\* variant: the playlist is not recorded
InsertReferencedForgets(referencedPlaylists, playlistFile) == referencedPlaylists

\* variant: the playlist is recorded when its file loads
InsertReferencedLoaded(referencedPlaylists, playlistFile) ==
  IF LoadOk(playlistFile) THEN referencedPlaylists \cup {playlistFile}
  ELSE referencedPlaylists

\* referencedPlaylists.insert(playlistFile)
InsertReferenced(referencedPlaylists, playlistFile) ==
  referencedPlaylists \cup {playlistFile}

\* variant: the symmetric test of CheckTypeCompatibility
TypeAcceptedSymmetric(playlistType, strType) ==
  CheckTypeCompatibility(playlistType, strType)

\* only playlists of same type will be part of the query
TypeAccepted(playlistType, strType) ==
  \/ playlistType = strType
  \/ playlistType = "mixed" /\ strType \in {"songs", "musicvideos"}
  \/ playlistType = ""

\* variant: the clause is spliced whatever the type
TypeMatchesAlways(playlist, strType) == TRUE

\* if (playlist.GetType() == strType), after the SetType above
TypeMatches(playlist, strType) == playlist.type = strType

\* currentRule of a loaded playlist whose type now equals strType
SplicedClause(operator, playlistQuery) ==
  IF operator = OPERATOR_DOES_NOT_EQUAL
  THEN <<"NOT (">> \o playlistQuery \o <<")">>
  ELSE playlistQuery

\* rule += "(" + combo->GetWhereClause(...) + ")"
WrapCombination(clause) == <<"(">> \o clause \o <<")">>

RECURSIVE GetWhereClause(_, _, _)
RECURSIVE CombinationsLoop(_, _, _, _, _)
RECURSIVE RulesLoop(_, _, _, _, _, _)
RECURSIVE PlaylistGetWhereClause(_, _)
RECURSIVE PlaylistRuleClause(_, _, _)

\* CSmartPlaylist::GetWhereClause: delegates to the root combination
PlaylistGetWhereClause(playlist, ctx) ==
  IF ctx.depth > MaxCallDepth
  THEN [rule |-> <<>>, ctx |-> [ctx EXCEPT !.overflow = TRUE]]
  ELSE GetWhereClause(playlist.root, playlist.type,
                      [ctx EXCEPT !.deepest = IF ctx.depth > @ THEN ctx.depth ELSE @])

\* the FieldPlaylist branch of the rules loop
PlaylistRuleClause(rule, strType, ctx) ==
  LET playlistFile == GetPlaylistByName(rule.parameter, strType) IN
  IF playlistFile = NoFile
  THEN [currentRule |-> <<>>, ctx |-> ctx]
  ELSE IF AlreadyReferenced(playlistFile, ctx.referencedPlaylists)
  THEN [currentRule |-> <<>>,
        ctx |-> [ctx EXCEPT !.skipped = Append(@, playlistFile)]]
  ELSE
    LET ins == [ctx EXCEPT
                  !.referencedPlaylists = InsertReferenced(@, playlistFile),
                  !.inserted = Append(@, playlistFile)]
    IN
    IF ~LoadOk(playlistFile)
    THEN [currentRule |-> <<>>, ctx |-> ins]
    ELSE
      LET loaded == Load(playlistFile)
          ld == [ins EXCEPT !.loaded = Append(@, playlistFile)]
          accepted == TypeAccepted(loaded.type, strType)
          playlist == IF accepted THEN SetType(loaded, strType) ELSE loaded
          Gave(sub) == [currentRule |-> IF TypeMatches(playlist, strType)
                                        THEN SplicedClause(rule.operator, sub.rule)
                                        ELSE <<>>,
                        ctx |-> [sub.ctx EXCEPT !.depth = ctx.depth]]
      IN CHOOSE gave \in
           {Gave(sub) : sub \in
              {IF accepted
               THEN PlaylistGetWhereClause(playlist,
                      [ld EXCEPT !.expanded = Append(@, playlistFile),
                                 !.depth = @ + 1])
               ELSE [rule |-> <<>>, ctx |-> ld]}} : TRUE

\* translate the combinations into SQL
CombinationsLoop(self, i, rule, strType, ctx) ==
  IF i > Len(self.combinations)
  THEN [rule |-> rule, ctx |-> ctx]
  ELSE
    LET sep == IF i # 1 THEN <<Separator(self.type)>> ELSE <<>>
        Rest(sub) == CombinationsLoop(self, i + 1,
                                      rule \o sep \o WrapCombination(sub.rule),
                                      strType, sub.ctx)
    IN CHOOSE rest \in
         {Rest(sub) : sub \in {GetWhereClause(self.combinations[i], strType, ctx)}} :
           TRUE

\* translate the rules into SQL
RulesLoop(self, i, rule, joinedRules, strType, ctx) ==
  IF i > Len(self.rules)
  THEN [rule |-> rule, joinedRules |-> joinedRules, ctx |-> ctx]
  ELSE
    LET it == self.rules[i] IN
    IF IsVirtualFolderRule(it)
    THEN RulesLoop(self, i + 1, rule, joinedRules, strType, ctx)
    ELSE IF it.field = FieldPlaylist
    THEN LET playlistFile == GetPlaylistByName(it.parameter, strType)
             k == Len(ctx.references) + 1
             \* history: a rule that names a stored playlist is reached
             reached == IF playlistFile = NoFile THEN ctx
                        ELSE [ctx EXCEPT !.references =
                                Append(@, [file |-> playlistFile,
                                           currentRule |-> <<>>])]
             \* history: the currentRule it gave
             Gave(p) == IF playlistFile = NoFile THEN p.ctx
                        ELSE [p.ctx EXCEPT !.references[k].currentRule = p.currentRule]
             Rest(p) == RulesLoop(self, i + 1,
                                  CombineClause(self.type, rule, p.currentRule),
                                  joinedRules, strType, Gave(p))
         IN CHOOSE rest \in {Rest(p) : p \in {PlaylistRuleClause(it, strType, reached)}} :
              TRUE
    ELSE IF ~IsFieldRuleSimple(it.field, MediaTypeFromString(strType))
    THEN RulesLoop(self, i + 1, CombineClause(self.type, rule, <<>>),
                   JoinRule(joinedRules, it), strType, Handled(ctx, "joined", i))
    ELSE RulesLoop(self, i + 1,
                   CombineClause(self.type, rule, RuleWhereClause(it, strType)),
                   joinedRules, strType, Handled(ctx, "own", i))

GetWhereClause(self, strType, ctx) ==
  LET Value(S) == CHOOSE v \in S : TRUE
      Whereclause(r) == IF r.joinedRules # <<>>
                        THEN <<GetCombinedWhereClause(
                                 [type |-> self.type, combinations |-> <<>>,
                                  rules |-> r.joinedRules], strType)>>
                        ELSE <<>>
      Rule(r, whereclause) == IF r.joinedRules # <<>>
                              THEN CombineClause(self.type, r.rule, whereclause[1])
                              ELSE r.rule
      Result(r, whereclause, rule) ==
        [rule |-> rule,
         ctx |-> CloseNode(r.ctx, [type |-> self.type, rules |-> self.rules,
                                   strType |-> strType,
                                   joinedRules |-> r.joinedRules,
                                   whereclause |-> whereclause,
                                   before |-> r.rule, rule |-> rule])]
  IN Value({
       Value({
         Value({
           Value({Result(r, whereclause, rule) :
                    rule \in {Rule(r, whereclause)}}) :
             whereclause \in {Whereclause(r)}}) :
           r \in {RulesLoop(self, 1, c.rule, <<>>, strType, c.ctx)}}) :
         c \in {CombinationsLoop(self, 1, <<>>, strType, OpenNode(ctx))}})

----------------------------------------------------------------------------
(* CSmartPlaylistRuleCombination::GetVirtualFolders                         *)
(* The context is the caller's vector virtualFolders, with the history of  *)
(* expanded playlists and the call depth.                                  *)
(***************************************************************************)

NewFolderContext ==
  [virtualFolders |-> <<>>, expanded |-> <<>>,
   depth |-> 0, deepest |-> 0, overflow |-> FALSE]

RECURSIVE GetVirtualFolders(_, _, _)
RECURSIVE FolderCombinationsLoop(_, _, _, _)
RECURSIVE FolderRulesLoop(_, _, _, _)
RECURSIVE PlaylistGetVirtualFolders(_, _)

\* CSmartPlaylist::GetVirtualFolders: delegates to the root combination
PlaylistGetVirtualFolders(playlist, ctx) ==
  IF ctx.depth > MaxCallDepth
  THEN [ctx EXCEPT !.overflow = TRUE]
  ELSE GetVirtualFolders(playlist.root, playlist.type,
                         [ctx EXCEPT !.deepest = IF ctx.depth > @ THEN ctx.depth ELSE @])

FolderCombinationsLoop(self, i, strType, ctx) ==
  IF i > Len(self.combinations) THEN ctx
  ELSE FolderCombinationsLoop(self, i + 1, strType,
                              GetVirtualFolders(self.combinations[i], strType, ctx))

FolderRulesLoop(self, i, strType, ctx) ==
  IF i > Len(self.rules) THEN ctx
  ELSE
    LET it == self.rules[i]
        playlistFile == GetPlaylistByName(it.parameter, strType)
    IN
    IF \/ (it.field # FieldVirtualFolder /\ it.field # FieldPlaylist)
       \/ it.operator # OPERATOR_EQUALS
    THEN FolderRulesLoop(self, i + 1, strType, ctx)
    ELSE IF playlistFile = NoFile
    THEN FolderRulesLoop(self, i + 1, strType, ctx)
    ELSE IF it.field = FieldVirtualFolder
    THEN FolderRulesLoop(self, i + 1, strType,
                         [ctx EXCEPT !.virtualFolders = Append(@, playlistFile)])
    ELSE IF ~LoadOk(playlistFile)
    THEN FolderRulesLoop(self, i + 1, strType, ctx)
    ELSE
      LET playlist == Load(playlistFile) IN
      IF CheckTypeCompatibility(playlist.type, strType)
      THEN LET sub == PlaylistGetVirtualFolders(playlist,
                        [ctx EXCEPT !.expanded = Append(@, playlistFile),
                                    !.depth = @ + 1])
           IN FolderRulesLoop(self, i + 1, strType,
                              [sub EXCEPT !.depth = ctx.depth])
      ELSE FolderRulesLoop(self, i + 1, strType, ctx)

GetVirtualFolders(self, strType, ctx) ==
  FolderRulesLoop(self, 1, strType,
                  FolderCombinationsLoop(self, 1, strType, ctx))

----------------------------------------------------------------------------
(* Inputs: playlist stores and playlist objects                             *)
(***************************************************************************)

TitleRule == [field |-> FieldTitle, operator |-> OPERATOR_EQUALS, parameter |-> 0]
ArtistRule == [field |-> FieldArtist, operator |-> OPERATOR_EQUALS, parameter |-> 0]
VirtualFolderRule(name) ==
  [field |-> FieldVirtualFolder, operator |-> OPERATOR_EQUALS, parameter |-> name]
PlaylistRule(name, operator) ==
  [field |-> FieldPlaylist, operator |-> operator, parameter |-> name]
RoleRule(value, operator) ==
  [field |-> FieldRole, operator |-> operator, parameter |-> value]
AlbumArtistRule ==
  [field |-> FieldAlbumArtist, operator |-> OPERATOR_EQUALS, parameter |-> 0]
GenreRule == [field |-> FieldGenre, operator |-> OPERATOR_EQUALS, parameter |-> 0]

Operators == {OPERATOR_EQUALS, OPERATOR_DOES_NOT_EQUAL}
Matches == {CombinationAnd, CombinationOr}

BoundedSeq(S, n) == UNION {[1..k -> S] : k \in 0..n}

\* no call on a rule is made, no artist is merged, no dialog is shown
NoRuleCall == ruleCall = "none" /\ returned = <<>>
NoArtist == artist = "none"
NoDialog == dialog = "none"

\* no playlist is compiled
NoPlaylist ==
  /\ store = [f \in Files |-> "none"]
  /\ xsp = "none"
  /\ compiles = <<>>
  /\ folders = <<>>

\* a name with no file in the playlist directory
Absent ==
  [exists |-> FALSE, ok |-> FALSE, type |-> "songs",
   match |-> CombinationAnd, rules |-> <<>>]

OnlyFirst(playlist) == [f \in Files |-> IF f = 1 THEN playlist ELSE Absent]

Flat(match, rules) == [type |-> match, combinations |-> <<>>, rules |-> rules]

\* one "playlist is" rule for each name of S, in the order of the names
References(S) ==
  LET names == CHOOSE s \in [1..Cardinality(S) -> S] :
                 \A i, j \in 1..Cardinality(S) : i < j => s[i] < s[j]
  IN [k \in 1..Cardinality(S) |-> PlaylistRule(names[k], OPERATOR_EQUALS)]

\* playlists of one type that reference each other by name
InitReferenceGraph ==
  /\ store \in [Files ->
       {[exists |-> TRUE, ok |-> TRUE, type |-> "songs",
         match |-> CombinationAnd, rules |-> References(S)] :
          S \in SUBSET Files}]
  /\ \E f \in Files : xsp = Load(f)

\* one stored playlist that may reference itself, compiled from its file
InitSelfReference ==
  /\ \E m \in Matches :
     \E r \in BoundedSeq({TitleRule} \cup {PlaylistRule(1, o) : o \in Operators},
                         MaxRules) :
       store = OnlyFirst([exists |-> TRUE, ok |-> TRUE, type |-> "songs",
                          match |-> m, rules |-> r])
  /\ xsp = Load(1)

\* a flat playlist of any type referencing a stored playlist of any type
InitTypes ==
  /\ \E t \in TypeSet, ok \in BOOLEAN :
       store = OnlyFirst([exists |-> TRUE, ok |-> ok, type |-> t,
                          match |-> CombinationAnd, rules |-> <<TitleRule>>])
  /\ \E t \in TypeSet, n \in {NoFile, 1}, o \in Operators :
     \E before \in BoundedSeq({TitleRule}, 1) :
     \E after \in BoundedSeq({TitleRule}, MaxRules - 1) :
       xsp = [file |-> NoFile, type |-> t,
              root |-> Flat(CombinationAnd,
                            before \o <<PlaylistRule(n, o)>> \o after)]

\* a "songs" playlist with child combinations and virtual folder rules
InitTree ==
  LET TreeRules ==
        {TitleRule, VirtualFolderRule(1), PlaylistRule(1, OPERATOR_EQUALS)}
      Leaves ==
        {Flat(CombinationAnd, r) :
           r \in {<<>>, <<TitleRule>>, <<VirtualFolderRule(1)>>,
                  <<PlaylistRule(1, OPERATOR_DOES_NOT_EQUAL)>>}}
  IN
  /\ \E r \in BoundedSeq({TitleRule}, 1) :
       store = OnlyFirst([exists |-> TRUE, ok |-> TRUE, type |-> "songs",
                          match |-> CombinationAnd, rules |-> r])
  /\ \E m \in Matches :
     \E c \in BoundedSeq(Leaves, MaxCombinations) :
     \E r \in BoundedSeq(TreeRules, MaxRules) :
       xsp = [file |-> NoFile, type |-> "songs",
              root |-> [type |-> m, combinations |-> c, rules |-> r]]

\* "songs" playlists with artist rules, which need the combined clause
InitJoined ==
  /\ \E m \in Matches :
     \E r \in BoundedSeq({TitleRule, ArtistRule}, MaxRules) :
       store = OnlyFirst([exists |-> TRUE, ok |-> TRUE, type |-> "songs",
                          match |-> m, rules |-> r])
  /\ \E m \in Matches :
     \E r \in BoundedSeq({TitleRule, ArtistRule, PlaylistRule(1, OPERATOR_EQUALS)},
                         MaxRules) :
       xsp = [file |-> NoFile, type |-> "songs", root |-> Flat(m, r)]

\* "albums" playlists with role rules and artist rules
InitRoles ==
  LET RoleRules ==
        {RoleRule("albumartist", o) : o \in Operators}
          \cup {RoleRule(v, OPERATOR_EQUALS) : v \in {"artist", "%", "composer"}}
  IN /\ store = [f \in Files |-> Absent]
     /\ \E m \in Matches :
        \E r \in BoundedSeq(RoleRules \cup {ArtistRule, AlbumArtistRule, GenreRule},
                            MaxRules) :
          xsp = [file |-> NoFile, type |-> "albums", root |-> Flat(m, r)]

\* flat playlists of the music types and of other types, with rules on
\* fields that some of the types have no column for
InitMediaTypes ==
  /\ store = [f \in Files |-> Absent]
  /\ \E t \in {"artists", "albums", "songs", "movies", "musicvideos", "tvshows",
               "mixed"} :
     \E m \in Matches :
     \E r \in BoundedSeq({TitleRule, ArtistRule, GenreRule,
                          RoleRule("composer", OPERATOR_EQUALS),
                          RoleRule("%", OPERATOR_EQUALS),
                          [field |-> "album", operator |-> OPERATOR_EQUALS,
                           parameter |-> 0]}, MaxRules) :
       xsp = [file |-> NoFile, type |-> t, root |-> Flat(m, r)]

\* a "songs" playlist naming one stored playlist in several rules and
\* branches; the stored playlist may fail to load or be of another type
InitSiblings ==
  /\ \E t \in {"songs", "movies"}, ok \in BOOLEAN :
       store = OnlyFirst([exists |-> TRUE, ok |-> ok, type |-> t,
                          match |-> CombinationAnd, rules |-> <<TitleRule>>])
  /\ \E m \in Matches :
     \E c \in BoundedSeq({Flat(CombinationAnd, <<PlaylistRule(1, OPERATOR_EQUALS)>>)}, 1) :
     \E r \in BoundedSeq({TitleRule} \cup {PlaylistRule(1, o) : o \in Operators},
                         MaxRules) :
       xsp = [file |-> NoFile, type |-> "songs",
              root |-> [type |-> m, combinations |-> c, rules |-> r]]

Init ==
  /\ \/ InitReferenceGraph
     \/ InitSiblings
     \/ InitSelfReference
     \/ InitTypes
     \/ InitTree
     \/ InitJoined
     \/ InitRoles
     \/ InitMediaTypes
  /\ compiles = <<>>
  /\ folders = <<>>
  /\ NoRuleCall
  /\ NoArtist
  /\ NoDialog

----------------------------------------------------------------------------
(* Inputs: calls on one rule                                                *)
(***************************************************************************)

\* a videoresolution rule asked for its check on iVideoWidth
InitVideoResolution ==
  LET ResolutionParameters ==
        {<<>>, <<"0">>, <<"5", "3", "9">>, <<"5", "4", "0">>, <<"7", "1", "9">>,
         <<"7", "2", "0">>, <<"1", "0", "7", "9">>, <<"1", "0", "8", "0">>,
         <<"1", "0", "8", "0", "p">>, <<"2", "1", "5", "9">>,
         <<"2", "1", "6", "0">>, <<"4", "3", "2", "0">>, <<" ", "7", "2", "0">>,
         <<"-", "7", "2", "0">>, <<"H", "D">>}
      ResolutionOperators ==
        {OPERATOR_EQUALS, OPERATOR_DOES_NOT_EQUAL, "lessthan", "greaterthan",
         "contains"}
  IN \E o \in ResolutionOperators, p \in ResolutionParameters :
       ruleCall = [op |-> "GetVideoResolutionQuery",
                   rule |-> [field |-> "videoresolution", operator |-> o,
                             parameter |-> p],
                   parameter |-> p]

\* negate of CDatabaseQueryRule::GetWhereClause
NegateOf(operator) == IF IsNegated(operator) THEN " NOT " ELSE ""

\* a rule formatted for one of its values and a media type
InitFormat ==
  LET FormatFields ==
        {"lastplayed", "dateadded", "playcount", "videoresolution",
         "audiochannels", "subtitlecount", FieldTitle, FieldGenre, "mpaarating",
         "disctitle", FieldRole}
      FormatOperators ==
        {OPERATOR_EQUALS, OPERATOR_DOES_NOT_EQUAL, "lessthan", "greaterthan",
         "before", "after", "inthelast", "notinthelast"}
      FormatTypes ==
        {"songs", "albums", "artists", "movies", "musicvideos", "tvshows",
         "episodes", "mixed", "pictures"}
  IN \E f \in FormatFields, o \in FormatOperators, t \in FormatTypes :
     \E p \in {<<"0">>, <<"1">>, <<"7", "2", "0">>} :
       ruleCall = [op |-> "FormatWhereClause",
                   rule |-> [field |-> f, operator |-> o, parameter |-> p],
                   negate |-> NegateOf(o), oper |-> o, param |-> p, strType |-> t]

\* a rule with several values formatted for a media type; oper is the
\* comparison of the operator without its negation
InitParameters ==
  \E f \in {FieldGenre, "source", FieldTitle} :
  \E o \in {OPERATOR_EQUALS, OPERATOR_DOES_NOT_EQUAL, "contains", "doesnotcontain"} :
  \E t \in {"songs", "albums", "movies"} :
  \E p \in BoundedSeq({<<"Rock">>, <<"Jazz">>}, MaxValues) :
    ruleCall = [op |-> "FormatParameters",
                rule |-> [field |-> f, operator |-> o, parameter |-> p],
                negate |-> NegateOf(o),
                oper |-> IF o \in {OPERATOR_EQUALS, OPERATOR_DOES_NOT_EQUAL}
                         THEN OPERATOR_EQUALS ELSE "contains",
                strType |-> t]

\* an input of the rule editor validated for a rule, or for no rule: the
\* rules are on fields with each validator and on one without
InitValidate ==
  LET InputCharacters == {"1", "x", " ", "/"}
      ValidatedFields == {"year", FieldTitle, "rating", "userrating"}
  IN \E input \in BoundedSeq(InputCharacters, MaxInput) :
     \E data \in {<<>>} \cup {<<[field |-> f, operator |-> OPERATOR_EQUALS,
                                  parameter |-> <<>>]>> : f \in ValidatedFields} :
       ruleCall = [op |-> "Validate", input |-> input, data |-> data]

\* a field name translated to its field and the field back to its name: the
\* names of the catalog in three spellings, and names it does not hold
InitTranslate ==
  LET ToUpper(c) ==
        IF \E k \in DOMAIN Upper : ToLower(Upper[k]) = c
        THEN Upper[CHOOSE k \in DOMAIN Upper : ToLower(Upper[k]) = c]
        ELSE c
      ToUpperAll(str) == [k \in DOMAIN str |-> ToUpper(str[k])]
      Capitalized(str) ==
        [k \in DOMAIN str |-> IF k = 1 THEN ToUpper(str[k]) ELSE str[k]]
      FieldNames ==
        UNION {{fields[k].string, ToUpperAll(fields[k].string),
                Capitalized(fields[k].string)} : k \in DOMAIN fields}
          \cup {<<>>, <<"x">>, <<"t", "i", "t", "l">>,
                <<"t", "i", "t", "l", "e", "s">>, <<"T", "I", "T", "L", "E", " ">>}
  IN \E field \in FieldNames :
       ruleCall = [op |-> "TranslateField", field |-> field]

\* a field translated to its name: the fields of the catalog and two others
InitTranslateToString ==
  \E field \in {fields[k].field : k \in DOMAIN fields} \cup {"unknown", "max"} :
    ruleCall = [op |-> "TranslateFieldToString", field |-> field]

\* a group of rules asked for its role clause and its routes
InitGroup ==
  LET RoleRules ==
        {RoleRule(v, o) : v \in {"albumartist", "artist", "composer"},
                          o \in Operators}
          \cup {RoleRule("%", OPERATOR_EQUALS), ArtistRule}
  IN \E m \in Matches : \E r \in BoundedSeq(RoleRules, MaxRules + 1) :
       ruleCall = [op |-> "GetRolesWhereClause", self |-> Flat(m, r)]

InitRule ==
  /\ \/ InitVideoResolution
     \/ InitFormat
     \/ InitValidate
     \/ InitTranslate
     \/ InitTranslateToString
     \/ InitGroup
     \/ InitParameters
  /\ returned = <<>>
  /\ NoPlaylist
  /\ NoArtist
  /\ NoDialog

----------------------------------------------------------------------------
(* Operations on one rule *)

\* CSmartPlaylistRule::GetVideoResolutionQuery(parameter) const
VideoResolutionQuery ==
  /\ ruleCall.op = "GetVideoResolutionQuery"
  /\ returned = <<>>
  /\ returned' = <<GetVideoResolutionQuery(ruleCall.rule, ruleCall.parameter)>>
  /\ UNCHANGED <<store, xsp, compiles, folders, ruleCall, artist, dialog>>

\* CSmartPlaylistRule::FormatWhereClause(negate, oper, param, db, strType) const
FormatRule ==
  /\ ruleCall.op = "FormatWhereClause"
  /\ returned = <<>>
  /\ returned' = <<FormatWhereClause(ruleCall.rule, ruleCall.negate, ruleCall.oper,
                                     ruleCall.param, ruleCall.strType)>>
  /\ UNCHANGED <<store, xsp, compiles, folders, ruleCall, artist, dialog>>

\* CSmartPlaylistRule::FormatParameters(negate, oper, db, strType) const
FormatRuleParameters ==
  /\ ruleCall.op = "FormatParameters"
  /\ returned = <<>>
  /\ returned' = <<FormatParameters(ruleCall.rule, ruleCall.negate, ruleCall.oper,
                                    ruleCall.strType)>>
  /\ UNCHANGED <<store, xsp, compiles, folders, ruleCall, artist, dialog>>

\* CSmartPlaylistRule::Validate(input, data)
ValidateInput ==
  /\ ruleCall.op = "Validate"
  /\ returned = <<>>
  /\ returned' = <<Validate(ruleCall.input, ruleCall.data)>>
  /\ UNCHANGED <<store, xsp, compiles, folders, ruleCall, artist, dialog>>

\* CSmartPlaylistRule::TranslateField(const char *field) const
TranslateName ==
  /\ ruleCall.op = "TranslateField"
  /\ returned = <<>>
  /\ returned' = <<TranslateField(ruleCall.field)>>
  /\ UNCHANGED <<store, xsp, compiles, folders, ruleCall, artist, dialog>>

\* CSmartPlaylistRule::TranslateField(int field) const, on the field just returned
TranslateBack ==
  /\ ruleCall.op = "TranslateField"
  /\ Len(returned) = 1
  /\ returned' = Append(returned, TranslateFieldToString(returned[1]))
  /\ UNCHANGED <<store, xsp, compiles, folders, ruleCall, artist, dialog>>

\* CSmartPlaylistRule::TranslateField(int field) const
TranslateToString ==
  /\ ruleCall.op = "TranslateFieldToString"
  /\ returned = <<>>
  /\ returned' = <<TranslateFieldToString(ruleCall.field)>>
  /\ UNCHANGED <<store, xsp, compiles, folders, ruleCall, artist, dialog>>

\* CSmartPlaylistRuleCombination::GetRolesWhereClause(db, bAlbumArtists,
\* bSongArtists, bJoinRole, bRoleRules) const: the clause and the four flags
RolesWhereClause ==
  /\ ruleCall.op = "GetRolesWhereClause"
  /\ returned = <<>>
  /\ returned' = <<GetRolesWhereClause(ruleCall.self)>>
  /\ UNCHANGED <<store, xsp, compiles, folders, ruleCall, artist, dialog>>

NextRule ==
  \/ RolesWhereClause
  \/ VideoResolutionQuery
  \/ FormatRule
  \/ FormatRuleParameters
  \/ ValidateInput
  \/ TranslateName
  \/ TranslateBack
  \/ TranslateToString

SpecRule == InitRule /\ [][NextRule]_vars

----------------------------------------------------------------------------
(* CArtist::MergeScrapedArtist of xbmc/music/Artist.cpp                     *)
(* An artist is its MusicBrainz ID with the flag bScrapedMBID, its name    *)
(* and sort name, strType for the text fields that are merged alike        *)
(* (gender, biography, born, ...) and its art.  The field merged is the    *)
(* history of the IDs the merged sources carried.                          *)
(***************************************************************************)

\* variant: a scraped ID replaces the ID derived from the tags as well
MergeMBIDAlways(self, source) ==
  IF source.strMusicBrainzArtistID # ""
  THEN [self EXCEPT !.strMusicBrainzArtistID = source.strMusicBrainzArtistID,
                    !.bScrapedMBID = TRUE]
  ELSE self

\* the first statement of both overloads
MergeMBID(self, source) ==
  IF /\ source.strMusicBrainzArtistID # ""
     /\ (self.strMusicBrainzArtistID = "" \/ self.bScrapedMBID)
  THEN [self EXCEPT !.strMusicBrainzArtistID = source.strMusicBrainzArtistID,
                    !.bScrapedMBID = TRUE]
  ELSE self

\* MergeScrapedArtist(const CArtist& source, bool override)
MergeScrapedArtist(self, source, override) ==
  LET id == MergeMBID(self, source) IN
  [id EXCEPT
     !.strArtist = IF (override /\ source.strArtist # "") \/ @ = ""
                   THEN source.strArtist ELSE @,
     !.strSortName = IF (override /\ source.strSortName # "") \/ @ = ""
                     THEN source.strSortName ELSE @,
     !.strType = source.strType,
     !.art = IF source.art # {} THEN source.art ELSE @]

\* MergeScrapedArtist(const CArtist& source, const std::string& strReplaceFields);
\* strReplaceFields is kept split at ",", empty for the empty string
MergeScrapedArtistFields(self, source, strReplaceFields) ==
  LET id == MergeMBID(self, source)
      bType == \/ strReplaceFields = <<>>
               \/ \E k \in DOMAIN strReplaceFields : strReplaceFields[k] = "type"
  IN
  [id EXCEPT
     !.strArtist = IF @ = "" THEN source.strArtist ELSE @,
     !.strSortName = IF @ = "" THEN source.strSortName ELSE @,
     !.strType = IF bType \/ @ = "" THEN source.strType ELSE @]

MBIDs == {"", "mbid-1", "mbid-2"}

\* what a scraper returns: never flagged, the ID may be missing
Sources ==
  [strMusicBrainzArtistID : MBIDs, bScrapedMBID : {FALSE},
   strArtist : {"", "alias"}, strSortName : {"sort"}, strType : {"", "person"},
   art : {{}, {"thumb"}}]

Merged(self, source, result) ==
  [result EXCEPT !.merged = Append(self.merged, source.strMusicBrainzArtistID)]

\* an artist of the library: only an ID that is there can be flagged as scraped
InitArtist ==
  /\ \E a \in {a \in [strMusicBrainzArtistID : MBIDs, bScrapedMBID : BOOLEAN,
                       strArtist : {"", "name"}, strSortName : {""},
                       strType : {"", "group"}, art : {{}}] :
                  a.bScrapedMBID => a.strMusicBrainzArtistID # ""} :
       artist = [strMusicBrainzArtistID |-> a.strMusicBrainzArtistID,
                 bScrapedMBID |-> a.bScrapedMBID, strArtist |-> a.strArtist,
                 strSortName |-> a.strSortName, strType |-> a.strType,
                 art |-> a.art, merged |-> <<>>]
  /\ NoPlaylist
  /\ NoRuleCall
  /\ NoDialog

Merge ==
  /\ Len(artist.merged) < MaxMerges
  /\ \E source \in Sources, override \in BOOLEAN :
       artist' = Merged(artist, source, MergeScrapedArtist(artist, source, override))
  /\ UNCHANGED <<store, xsp, compiles, folders, ruleCall, returned, dialog>>

MergeFields ==
  /\ Len(artist.merged) < MaxMerges
  /\ \E source \in Sources :
     \E strReplaceFields \in {<<>>, <<"type">>, <<"gender">>, <<"gender", "type">>} :
       artist' = Merged(artist, source,
                        MergeScrapedArtistFields(artist, source, strReplaceFields))
  /\ UNCHANGED <<store, xsp, compiles, folders, ruleCall, returned, dialog>>

NextArtist == Merge \/ MergeFields

SpecArtist == InitArtist /\ [][NextArtist]_vars

----------------------------------------------------------------------------
(* CGUIDialogRefreshSettings of xbmc/music/dialogs                          *)
(* Show blocks in Open() while the user changes settings and closes the    *)
(* modal dialog, so it is one step up to Open(), the steps of the user,    *)
(* and one step from the return of Open() to the return of Show.           *)
(***************************************************************************)

REFRESH_LIBRARY == 0
REFRESH_ALLVIEW == 1
REFRESH_THISITEM == 2

MediaTypeAlbum == "album"
MediaTypeArtist == "artist"


\* variant: the choice to replace art is left as the user set it
ResetDefaultsButArt(self) ==
  [self EXCEPT !.m_mediaType = MediaTypeAlbum,
               !.m_bFixedApply = FALSE,
               !.m_applyToItems = REFRESH_ALLVIEW,
               !.m_bSkipScraped = TRUE,
               !.m_bReplaceAll = TRUE,
               !.m_bIgnoreNFOFiles = FALSE]

\* the member initialisers of the class, which ResetDefaults restores
ResetDefaults(self) ==
  [self EXCEPT !.m_mediaType = MediaTypeAlbum,
               !.m_bFixedApply = FALSE,
               !.m_applyToItems = REFRESH_ALLVIEW,
               !.m_bSkipScraped = TRUE,
               !.m_bReplaceAll = TRUE,
               !.m_bIgnoreNFOFiles = FALSE,
               !.m_bReplaceArt = FALSE]

\* the settings InitializeSettings adds to the dialog
SettingsOf(self) ==
  {"replaceallfields", "ignorenfofiles", "replaceart"}
    \cup (IF self.m_bFixedApply THEN {}
          ELSE {"applysettingstoitems", "skipscraped"})

\* the values a setting can be given
ValuesOf(settingId) ==
  IF settingId = "applysettingstoitems"
  THEN {REFRESH_THISITEM, REFRESH_ALLVIEW, REFRESH_LIBRARY}
  ELSE BOOLEAN

SettingChanged(self, settingId, value) ==
  CASE settingId = "applysettingstoitems" -> [self EXCEPT !.m_applyToItems = value]
    [] settingId = "skipscraped" -> [self EXCEPT !.m_bSkipScraped = value]
    [] settingId = "replaceallfields" -> [self EXCEPT !.m_bReplaceAll = value]
    [] settingId = "ignorenfofiles" -> [self EXCEPT !.m_bIgnoreNFOFiles = value]
    [] settingId = "replaceart" -> [self EXCEPT !.m_bReplaceArt = value]
    [] OTHER -> self

\* the scan flags Show hands back in flags
ScanFlags(self, mediatype, applyToItems) ==
  (IF mediatype = MediaTypeAlbum THEN {"SCAN_ALBUMS"} ELSE {"SCAN_ARTISTS"})
    \cup (IF ~self.m_bSkipScraped \/ applyToItems = REFRESH_THISITEM
          THEN {"SCAN_RESCAN"} ELSE {})
    \cup (IF self.m_bIgnoreNFOFiles THEN {"SCAN_INGORENFO"} ELSE {})
    \cup (IF self.m_bReplaceArt THEN {"SCAN_REPLACEART"} ELSE {})
    \cup (IF ~self.m_bReplaceAll THEN {"SCAN_NOTMETADATA"} ELSE {})

\* variant: the option is read after the defaults are restored
ShowResultAfterReset(confirmed, applyToItems) ==
  IF confirmed THEN REFRESH_ALLVIEW ELSE -1

\* if (confirmed) return applyToItems; else return -1;
ShowResult(confirmed, applyToItems) ==
  IF confirmed THEN applyToItems ELSE -1

\* the window manager has the dialog or not; no Show call is running;
\* earlier holds the scan flags the Show calls before this one handed back
InitDialog ==
  /\ \E available \in BOOLEAN :
       dialog = ResetDefaults(
         [available |-> available, pc |-> "idle", shows |-> 0, changes |-> 0,
          mediatype |-> "", fixedApply |-> -1, m_confirmed |-> FALSE,
          closedWith |-> -1, flags |-> {}, earlier |-> {}, result |-> <<>>,
          m_mediaType |-> "", m_bFixedApply |-> FALSE, m_applyToItems |-> 0,
          m_bSkipScraped |-> FALSE, m_bReplaceAll |-> FALSE,
          m_bIgnoreNFOFiles |-> FALSE, m_bReplaceArt |-> FALSE])
  /\ NoPlaylist
  /\ NoRuleCall
  /\ NoArtist

\* Show up to dialog->Open(), or to one of the two early returns
ShowOpen ==
  /\ dialog.pc = "idle"
  /\ dialog.shows < MaxShows
  /\ \E mediatype \in {MediaTypeAlbum, MediaTypeArtist, "song"},
        fixedApply \in {-1, REFRESH_LIBRARY, REFRESH_ALLVIEW, REFRESH_THISITEM} :
       LET called == [dialog EXCEPT !.shows = @ + 1, !.changes = 0,
                                    !.mediatype = mediatype,
                                    !.fixedApply = fixedApply,
                                    !.earlier = @ \cup dialog.flags,
                                    !.flags = {}]
       IN
       IF ~dialog.available \/ mediatype \notin {MediaTypeAlbum, MediaTypeArtist}
       THEN dialog' = [called EXCEPT !.result = <<-1>>]
       ELSE dialog' =
              [(IF fixedApply >= 0
                THEN [called EXCEPT !.m_bSkipScraped = FALSE,
                                    !.m_bFixedApply = TRUE,
                                    !.m_applyToItems = fixedApply]
                ELSE called)
               EXCEPT !.m_mediaType = mediatype, !.pc = "open", !.result = <<>>,
                      !.m_confirmed = FALSE, !.closedWith = -1]
  /\ UNCHANGED <<store, xsp, compiles, folders, ruleCall, returned, artist>>

\* OnSettingChanged(setting) for a setting of the open dialog
OnSettingChanged ==
  /\ dialog.pc = "open"
  /\ dialog.changes < MaxChanges
  /\ \E settingId \in SettingsOf(dialog) :
     \E value \in ValuesOf(settingId) :
       dialog' = [SettingChanged(dialog, settingId, value) EXCEPT !.changes = @ + 1]
  /\ UNCHANGED <<store, xsp, compiles, folders, ruleCall, returned, artist>>

\* the user closes the dialog with OK (confirmed) or with Cancel
Close ==
  /\ dialog.pc = "open"
  /\ \E confirmed \in BOOLEAN :
       dialog' = [dialog EXCEPT !.pc = "closed", !.m_confirmed = confirmed,
                                !.closedWith = dialog.m_applyToItems]
  /\ UNCHANGED <<store, xsp, compiles, folders, ruleCall, returned, artist>>

\* Show from the return of Open() to its own return
ShowReturn ==
  /\ dialog.pc = "closed"
  /\ LET confirmed == dialog.m_confirmed
         applyToItems == dialog.m_applyToItems
     IN dialog' = [ResetDefaults(dialog) EXCEPT
                     !.pc = "idle",
                     !.flags = ScanFlags(dialog, dialog.mediatype, applyToItems),
                     !.result = <<ShowResult(confirmed, applyToItems)>>]
  /\ UNCHANGED <<store, xsp, compiles, folders, ruleCall, returned, artist>>

NextDialog == ShowOpen \/ OnSettingChanged \/ Close \/ ShowReturn

SpecDialog == InitDialog /\ [][NextDialog]_vars

----------------------------------------------------------------------------
(* Operations *)

\* the set the caller of CSmartPlaylist::GetWhereClause creates for one compile
NewReferencedPlaylists == {}

\* what one top-level compile returned and left in the caller's set
CompileResultFrom(playlist, referencedPlaylists) ==
  LET r == PlaylistGetWhereClause(playlist, NewContext(referencedPlaylists))
  IN [sql |-> r.rule,
      referencedPlaylists |-> r.ctx.referencedPlaylists,
      inserted |-> r.ctx.inserted,
      loaded |-> r.ctx.loaded,
      expanded |-> r.ctx.expanded,
      skipped |-> r.ctx.skipped,
      deepest |-> r.ctx.deepest,
      overflow |-> r.ctx.overflow,
      nodes |-> r.ctx.nodes,
      references |-> r.ctx.references]

CompileResult(playlist) == CompileResultFrom(playlist, NewReferencedPlaylists)

\* variant: the set of the previous compile is used again
CompileReusingSet ==
  /\ Len(compiles) < MaxCompiles
  /\ compiles' = Append(compiles,
       CompileResultFrom(xsp,
         IF compiles = <<>> THEN NewReferencedPlaylists
         ELSE compiles[Len(compiles)].referencedPlaylists))
  /\ UNCHANGED <<store, xsp, folders, ruleCall, returned, artist, dialog>>

\* CSmartPlaylist::GetWhereClause(db, referencedPlaylists) const
Compile ==
  /\ Len(compiles) < MaxCompiles
  /\ compiles' = Append(compiles, CompileResult(xsp))
  /\ UNCHANGED <<store, xsp, folders, ruleCall, returned, artist, dialog>>

\* CSmartPlaylist::GetVirtualFolders(virtualFolders) const
ListVirtualFolders ==
  /\ folders = <<>>
  /\ folders' = <<PlaylistGetVirtualFolders(xsp, NewFolderContext)>>
  /\ UNCHANGED <<store, xsp, compiles, ruleCall, returned, artist, dialog>>

Next == Compile \/ ListVirtualFolders

Spec == Init /\ [][Next]_vars

----------------------------------------------------------------------------
(* Reading the results *)

Range(seq) == {seq[k] : k \in DOMAIN seq}

NoDuplicates(seq) == \A j, k \in DOMAIN seq : j # k => seq[j] # seq[k]

Openers == {"(", "NOT (", "EXISTS ("}
Binary == {" AND ", " OR "}
StartsOperand(tok) == tok \notin Binary /\ tok # ")"
EndsOperand(tok) == tok \notin Binary /\ tok \notin Openers

RECURSIVE DepthAfter(_, _)
\* parenthesis depth after the first k tokens; -1 once a ")" had no opener
DepthAfter(sql, k) ==
  IF k = 0 THEN 0
  ELSE LET d == DepthAfter(sql, k - 1) IN
       IF d < 0 THEN -1
       ELSE IF sql[k] \in Openers THEN d + 1
       ELSE IF sql[k] = ")" THEN d - 1
       ELSE d

\* a boolean expression: operands joined by AND/OR, groups balanced and not empty
ValidExpression(sql) ==
  /\ sql # <<>>
  /\ \A k \in DOMAIN sql : DepthAfter(sql, k) >= 0
  /\ DepthAfter(sql, Len(sql)) = 0
  /\ StartsOperand(sql[1])
  /\ EndsOperand(sql[Len(sql)])
  /\ \A k \in 1..(Len(sql) - 1) :
       IF EndsOperand(sql[k])
       THEN sql[k + 1] \in Binary \/ sql[k + 1] = ")"
       ELSE StartsOperand(sql[k + 1])

\* tokens j < k lie in the same parenthesis group, at its top level
SameGroup(sql, j, k) ==
  /\ DepthAfter(sql, j) = DepthAfter(sql, k)
  /\ \A m \in j..k : DepthAfter(sql, m) >= DepthAfter(sql, j)

\* AND binds tighter than OR: a group reads left to right, as the fold that
\* built it, unless an AND follows an OR at the top level of the group
ReadsLeftToRight(sql) ==
  \A j, k \in DOMAIN sql :
    (j < k /\ sql[j] = " OR " /\ sql[k] = " AND ") => ~SameGroup(sql, j, k)

RECURSIVE WithoutVirtualFolders(_)
WithoutVirtualFolders(self) ==
  [type |-> self.type,
   combinations |-> [k \in DOMAIN self.combinations |->
                       WithoutVirtualFolders(self.combinations[k])],
   rules |-> SelectSeq(self.rules, LAMBDA r : r.field # FieldVirtualFolder)]

HasVirtualFolderRule(self) ==
  \/ \E k \in DOMAIN self.rules : self.rules[k].field = FieldVirtualFolder
  \/ \E c \in DOMAIN self.combinations :
       \E k \in DOMAIN self.combinations[c].rules :
         self.combinations[c].rules[k].field = FieldVirtualFolder

\* the sequence without its k-th element
RemoveAt(seq, k) == SubSeq(seq, 1, k - 1) \o SubSeq(seq, k + 1, Len(seq))

WithoutRule(playlist, k) ==
  [playlist EXCEPT !.root.rules = RemoveAt(@, k)]

----------------------------------------------------------------------------
(* Properties *)

\* C1: a top-level GetWhereClause call terminates on every store, cyclic ones
\* included: the nesting of playlist calls never passes the number of stored
\* playlists, so the call stack bound is never reached, and at most that many
\* nested playlists are expanded.
C1_CompileTerminates ==
  \A i \in DOMAIN compiles :
    /\ ~compiles[i].overflow
    /\ compiles[i].deepest <= NumPlaylists
    /\ Len(compiles[i].expanded) <= NumPlaylists

\* a compile that went two playlists deep and met a playlist again
C1_Witness ==
  \E i \in DOMAIN compiles :
    /\ compiles[i].deepest >= 2
    /\ compiles[i].skipped # <<>>
    /\ ~compiles[i].overflow

\* C2: during one compile each playlist is inserted into referencedPlaylists at
\* most once and loaded and compiled as a nested playlist at most once; a rule
\* whose playlist is already in the set is skipped, never expanded.
C2_EnteredOnce ==
  \A i \in DOMAIN compiles :
    LET c == compiles[i] IN
    /\ NoDuplicates(c.inserted)
    /\ NoDuplicates(c.loaded)
    /\ NoDuplicates(c.expanded)
    /\ Range(c.expanded) \subseteq Range(c.loaded)
    /\ Range(c.loaded) \subseteq Range(c.inserted)
    /\ Range(c.skipped) \subseteq Range(c.inserted)
    /\ c.referencedPlaylists = Range(c.inserted)

\* a compile that entered two playlists and skipped a rule naming one of them
C2_Witness ==
  \E i \in DOMAIN compiles :
    /\ Len(compiles[i].inserted) >= 2
    /\ \E k \in DOMAIN compiles[i].skipped :
         compiles[i].skipped[k] \in Range(compiles[i].expanded)

\* C3 (as claimed): GetVirtualFolders terminates on cyclic playlist references
\* and expands no playlist more than once.
C3_FoldersGuarded ==
  \A i \in DOMAIN folders :
    /\ ~folders[i].overflow
    /\ NoDuplicates(folders[i].expanded)

\* the root rules of a playlist that name the playlist's own file
SelfReferences(playlist) ==
  {k \in DOMAIN playlist.root.rules :
     /\ playlist.root.rules[k].field = FieldPlaylist
     /\ playlist.file # NoFile
     /\ GetPlaylistByName(playlist.root.rules[k].parameter, playlist.type)
          = playlist.file}

WithoutSelfReferences(playlist) ==
  [playlist EXCEPT !.root.rules =
     SelectSeq(@, LAMBDA r :
       ~(r.field = FieldPlaylist
         /\ GetPlaylistByName(r.parameter, playlist.type) = playlist.file))]

\* C4 (as claimed): in a top-level compile of playlist P a rule naming P is
\* skipped: P is not expanded as a nested playlist, and the rule contributes an
\* empty fragment, so the result is that of P without the rule.
C4_SelfReferenceSkipped ==
  \A i \in DOMAIN compiles :
    SelfReferences(xsp) # {} =>
      /\ xsp.file \notin Range(compiles[i].expanded)
      /\ compiles[i].sql = CompileResult(WithoutSelfReferences(xsp)).sql

\* the first root rule names a stored playlist that loads
FirstRuleLoads(playlist) ==
  /\ playlist.root.combinations = <<>>
  /\ playlist.root.rules # <<>>
  /\ playlist.root.rules[1].field = FieldPlaylist
  /\ GetPlaylistByName(playlist.root.rules[1].parameter, playlist.type) # NoFile
  /\ GetPlaylistByName(playlist.root.rules[1].parameter, playlist.type) # playlist.file
  /\ LoadOk(GetPlaylistByName(playlist.root.rules[1].parameter, playlist.type))

FirstRuleFile(playlist) ==
  GetPlaylistByName(playlist.root.rules[1].parameter, playlist.type)

Unresolved(rule, strType) ==
  LET f == GetPlaylistByName(rule.parameter, strType) IN
  \/ f = NoFile
  \/ ~LoadOk(f)
  \/ ~TypeAccepted(store[f].type, strType)

\* the reference of a playlist rule is not resolved, with "incompatible" read
\* as the failure of CheckTypeCompatibility
UnresolvedByCompatibility(rule, strType) ==
  LET f == GetPlaylistByName(rule.parameter, strType) IN
  \/ f = NoFile
  \/ ~LoadOk(f)
  \/ ~CheckTypeCompatibility(store[f].type, strType)

C7_ValidOrEmpty ==
  \A i \in DOMAIN compiles :
    compiles[i].sql = <<>> \/ ValidExpression(compiles[i].sql)

\* C8 (as claimed): every fragment with a top-level AND or OR is wrapped, so the
\* output read with AND binding tighter than OR means the fold of the fragments
\* from left to right.
C8_PrecedenceKept ==
  \A i \in DOMAIN compiles : ReadsLeftToRight(compiles[i].sql)

\* C9: virtual folder rules do not affect the compile: the string and the guard
\* set are those of the same playlist with the virtual folder rules removed,
\* and no virtual folder rule is translated or handed to the assembler.
C9_VirtualFoldersIgnored ==
  \A i \in DOMAIN compiles :
    LET bare == CompileResult([xsp EXCEPT !.root = WithoutVirtualFolders(@)])
    IN /\ compiles[i].sql = bare.sql
       /\ compiles[i].referencedPlaylists = bare.referencedPlaylists
       /\ \A n \in DOMAIN compiles[i].nodes :
            \A k \in Range(compiles[i].nodes[n].own \o compiles[i].nodes[n].joined) :
              compiles[i].nodes[n].rules[k].field # FieldVirtualFolder

\* a compile of a playlist with a virtual folder rule that returned a clause
C9_Witness ==
  \E i \in DOMAIN compiles :
    /\ HasVirtualFolderRule(xsp.root)
    /\ compiles[i].sql # <<>>

RoleAndArtist(match) ==
  /\ xsp.type = "albums"
  /\ xsp.root.type = match
  /\ xsp.root.combinations = <<>>
  /\ Len(xsp.root.rules) = 2
  /\ Range(xsp.root.rules) = {RoleRule("albumartist", OPERATOR_EQUALS), ArtistRule}

C11_AlbumArtistRouteOnly ==
  \A k \in DOMAIN compiles :
    /\ RoleAndArtist(CombinationAnd) =>
         /\ Range(compiles[k].sql) \cap AlbumArtistRoute # {}
         /\ Range(compiles[k].sql) \cap SongArtistRoute = {}
    /\ RoleAndArtist(CombinationOr) =>
         /\ Range(compiles[k].sql) \cap AlbumArtistRoute # {}
         /\ Range(compiles[k].sql) \cap SongArtistRoute # {}
         /\ " OR " \in Range(compiles[k].sql)

\* does a width pass one comparison, and the whole check
Compares(width, c) ==
  CASE c.compare = ">=" -> width >= c.bound
    [] c.compare = "<=" -> width <= c.bound
    [] c.compare = "<" -> width < c.bound
    [] c.compare = ">" -> width > c.bound

Passes(width, check) ==
  IF Len(check) = 1 THEN Compares(width, check[1])
  ELSE IF check[2] = " AND "
  THEN Compares(width, check[1]) /\ Compares(width, check[3])
  ELSE Compares(width, check[1]) \/ Compares(width, check[3])

Widths == {0, 720, 721, 960, 961, 1280, 1281, 1920, 1921, 3840, INT_MAX}

ResolutionAsked(operator, parameter) ==
  /\ ruleCall.op = "GetVideoResolutionQuery"
  /\ ruleCall.rule.operator = operator
  /\ ruleCall.parameter = parameter
  /\ returned # <<>>

\* C12: a videoresolution rule "is 1080" constrains the width to 1281..1920
\* and "is 2160" to 1921..INT_MAX.
C12_ResolutionBands ==
  /\ ResolutionAsked(OPERATOR_EQUALS, <<"1", "0", "8", "0">>) =>
       /\ Len(returned[1]) = 3
       /\ \A w \in Widths : Passes(w, returned[1]) <=> (1281 <= w /\ w <= 1920)
  /\ ResolutionAsked(OPERATOR_EQUALS, <<"2", "1", "6", "0">>) =>
       /\ Len(returned[1]) = 3
       /\ \A w \in Widths : Passes(w, returned[1]) <=> (1921 <= w /\ w <= INT_MAX)
       /\ returned[1][3].bound = INT_MAX

C12_Witness ==
  /\ ResolutionAsked(OPERATOR_EQUALS, <<"2", "1", "6", "0">>)
  /\ Passes(3840, returned[1])

\* C13 as stated: a videoresolution rule "less than 720" asks for a width
\* below 0.
C13_BelowZero ==
  ResolutionAsked("lessthan", <<"7", "2", "0">>) =>
    /\ Len(returned[1]) = 1
    /\ returned[1][1] = [compare |-> "<", bound |-> 0]

\* C13: a videoresolution rule "less than 720" asks for a width below 961,
\* the lower end of the band 961..1280 that holds 720.
C13_BelowBandOf720 ==
  ResolutionAsked("lessthan", <<"7", "2", "0">>) =>
    /\ Len(returned[1]) = 1
    /\ returned[1][1] = [compare |-> "<", bound |-> 961]
    /\ \A w \in Widths : Passes(w, returned[1]) <=> w < 961

C13_Witness ==
  /\ ResolutionAsked("lessthan", <<"7", "2", "0">>)
  /\ Passes(960, returned[1])
  /\ ~Passes(961, returned[1])

Formatted ==
  /\ ruleCall.op = "FormatWhereClause"
  /\ returned # <<>>

NullableFields == {"lastplayed", "dateadded", "playcount"}

\* the fragment holds the test for NULL
HasNullTest(query) ==
  \E k \in DOMAIN query : k <= 2 /\ query[k] \in {" IS NULL OR ", " is NULL or "}

\* the fragment is <column> IS NULL OR <column> <operator> <value>
IsNullOrComparison(query, rule) ==
  /\ Len(query) >= 5
  /\ query[2] \in {" IS NULL OR ", " is NULL or "}
  /\ query[1] = query[3]
  /\ query[1] = rule.field
  /\ query[4] = rule.operator
  /\ SubSeq(query, 5, Len(query)) = rule.parameter

WidenedToNull(rule, param, strType) ==
  \/ /\ rule.field = "lastplayed"
     /\ rule.operator \in NullableOperators
     /\ strType \in {"songs", "albums", "movies", "musicvideos", "tvshows", "episodes"}
  \/ /\ rule.field = "dateadded"
     /\ rule.operator \in NullableOperators
     /\ strType \in {"movies", "musicvideos", "tvshows", "episodes"}
  \/ /\ rule.field = "playcount"
     /\ strType \notin {"songs", "albums", "tvshows"}
     /\ \/ rule.operator = "lessthan"
        \/ rule.operator = OPERATOR_EQUALS /\ param = <<"0">>
        \/ rule.operator = OPERATOR_DOES_NOT_EQUAL /\ param # <<"0">>

StreamFields ==
  {"videoresolution", "audiochannels", "videocodec", "audiocodec",
   "audiolanguage", "subtitlelanguage", "videoaspect",
   "audiocount", "subtitlecount"}

\* the media types whose items are files with stream details
StreamTypes == {"movies", "musicvideos", "episodes"}

\* the rule has a column or a special case of its own for the media type
Supported(rule, negate, oper, param, strType) ==
  \/ GetField(rule.field, strType) # ""
  \/ Len(TypeQuery(rule, negate, FormatParameter(rule, oper, param), strType)) > 0
  \/ rule.field \in StreamFields /\ strType \in StreamTypes

\* C15: a rule whose field has neither a column nor a special case for the
\* media type, unknown media types included, is formatted as the empty
\* fragment; so are the stream detail fields of the media types without
\* stream details.
C15_UnsupportedIsEmpty ==
  (/\ Formatted
   /\ ~Supported(ruleCall.rule, ruleCall.negate, ruleCall.oper, ruleCall.param,
                 ruleCall.strType))
    => Len(returned[1]) = 0

\* C16: over any sequence of merges an ID that is not empty and not flagged
\* as scraped is kept and stays unflagged; the ID changes only while it is
\* empty or flagged, and every replacement sets the flag.
C16_TagMBIDKept ==
  [][/\ (artist.strMusicBrainzArtistID # "" /\ ~artist.bScrapedMBID) =>
          /\ artist'.strMusicBrainzArtistID = artist.strMusicBrainzArtistID
          /\ ~artist'.bScrapedMBID
     /\ (artist'.strMusicBrainzArtistID # artist.strMusicBrainzArtistID) =>
          /\ artist.strMusicBrainzArtistID = "" \/ artist.bScrapedMBID
          /\ artist'.bScrapedMBID
     /\ (artist'.bScrapedMBID # artist.bScrapedMBID) =>
          /\ artist.strMusicBrainzArtistID = ""
          /\ artist'.strMusicBrainzArtistID # ""]_vars

\* an ID from the tags has met sources carrying another ID
C16_Witness ==
  /\ artist.strMusicBrainzArtistID = "mbid-1"
  /\ ~artist.bScrapedMBID
  /\ artist.merged = <<"mbid-2", "mbid-2">>

\* C17: Show returns -1 when the dialog window is unavailable, when the
\* media type is neither album nor artist or when the user did not confirm;
\* otherwise it returns the apply option in force when the dialog closed,
\* one of 0, 1 and 2.
C17_ShowReturns ==
  dialog.result # <<>> =>
    IF \/ ~dialog.available
       \/ dialog.mediatype \notin {MediaTypeAlbum, MediaTypeArtist}
       \/ ~dialog.m_confirmed
    THEN dialog.result = <<-1>>
    ELSE /\ dialog.result = <<dialog.closedWith>>
         /\ dialog.closedWith \in {REFRESH_LIBRARY, REFRESH_ALLVIEW, REFRESH_THISITEM}

\* a confirmed dialog returned an option the user chose, not the default
C17_Witness ==
  /\ dialog.result = <<REFRESH_THISITEM>>
  /\ dialog.m_confirmed
  /\ dialog.fixedApply = -1
  /\ dialog.changes > 0

\* C18: Validate is true without a rule and for a field without a validator;
\* otherwise it is true exactly if every value between the separators " / "
\* passes the validator of the field on its own.
C18_ValidateEveryValue ==
  (ruleCall.op = "Validate" /\ returned # <<>>) =>
    LET values == Split(ruleCall.input, RULE_VALUE_SEPARATOR)
        entries == IF ruleCall.data = <<>> THEN {}
                   ELSE {k \in DOMAIN fields : fields[k].field = ruleCall.data[1].field}
    IN returned[1] =
         (\/ ruleCall.data = <<>>
          \/ \A k \in entries : fields[k].validator = "NULL"
          \/ \A v \in DOMAIN values :
               \A k \in entries : CallValidator(fields[k].validator, values[v]))

\* two values of which the first passes and the second does not
C18_Witness ==
  /\ ruleCall.op = "Validate"
  /\ ruleCall.input = <<"1", " ", "/", " ", "x">>
  /\ ruleCall.data # <<>>
  /\ ruleCall.data[1].field = "year"
  /\ returned = <<FALSE>>

\* the entries of the catalog whose name is the given one but for the case
NamedLike(field) ==
  {k \in DOMAIN fields :
     [j \in DOMAIN field |-> ToLower(field[j])]
       = [j \in DOMAIN fields[k].string |-> ToLower(fields[k].string[j])]}

\* C19: a name is translated to the field of the catalog entry of that name,
\* whatever the case, and to FieldNone when no entry has it; the field of
\* an entry translates back to the name of the entry; a field that is not
\* in the catalog translates to "none".
C19_TranslateField ==
  /\ (ruleCall.op = "TranslateField" /\ returned # <<>>) =>
       /\ NamedLike(ruleCall.field) = {} => returned[1] = FieldNone
       /\ \A k \in NamedLike(ruleCall.field) : returned[1] = fields[k].field
       /\ Len(returned) = 2 =>
            \A k \in NamedLike(ruleCall.field) : returned[2] = fields[k].string
  /\ (ruleCall.op = "TranslateFieldToString" /\ returned # <<>>) =>
       /\ \A k \in DOMAIN fields :
            fields[k].field = ruleCall.field => returned[1] = fields[k].string
       /\ (\A k \in DOMAIN fields : fields[k].field # ruleCall.field) =>
            returned[1] = <<"n", "o", "n", "e">>

\* a name in capitals went to its field and back to the name of the catalog
C19_Witness ==
  /\ ruleCall.op = "TranslateField"
  /\ ruleCall.field = <<"A", "L", "B", "U", "M", " ", "R", "A", "T", "I", "N", "G">>
  /\ returned = <<"album rating",
                  <<"a", "l", "b", "u", "m", " ", "r", "a", "t", "i", "n", "g">>>>

\* the rules of a combination that are neither virtual folder nor playlist rules
PlainRules(rules) ==
  {i \in DOMAIN rules : rules[i].field \notin {FieldVirtualFolder, FieldPlaylist}}

\* C20: in every combination translated by a compile, each rule that is
\* neither a virtual folder nor a playlist rule is either translated on its
\* own or put in the group, never both and never twice; the group holds the
\* rules put in it once each; a group with rules is assembled once and its
\* fragment is combined once, last, into what the combination returns, and
\* nothing is assembled for a group without rules.
C20_HandledOneWay ==
  \A c \in DOMAIN compiles : \A n \in DOMAIN compiles[c].nodes :
    LET node == compiles[c].nodes[n] IN
    /\ NoDuplicates(node.own \o node.joined)
    /\ Range(node.own \o node.joined) = PlainRules(node.rules)
    /\ Len(node.joinedRules) = Len(node.joined)
    /\ \A k \in DOMAIN node.joined : node.joinedRules[k] = node.rules[node.joined[k]]
    /\ Len(node.whereclause) = (IF node.joined # <<>> THEN 1 ELSE 0)
    /\ node.joined = <<>> => node.rule = node.before
    /\ node.joined # <<>> =>
         LET fragment == node.whereclause[1] IN
         node.rule = (IF fragment = <<>> THEN node.before
                      ELSE IF node.before = <<>> THEN fragment
                      ELSE node.before \o <<Separator(node.type), "(">>
                             \o fragment \o <<")">>)

\* a combination with a rule translated on its own and a rule in the group
C20_Witness ==
  \E c \in DOMAIN compiles : \E n \in DOMAIN compiles[c].nodes :
    LET node == compiles[c].nodes[n] IN
    /\ node.own # <<>>
    /\ node.joined # <<>>
    /\ node.before # <<>>
    /\ node.whereclause[1] # <<>>

\* a field of the media type's own view: it has a column there and is not one
\* of the artist fields, which belong to the artists of an album or a song
NativeToView(field, mediaType) ==
  /\ HasWhereField(field, mediaType)
  /\ ~(mediaType \in {"album", "song"} /\ field \in {FieldArtist, FieldAlbumArtist})

\* C21: a combination assembles the combined clause only in a compile for
\* "artists", "albums" or "songs" and only when it holds a rule on a field that
\* is not native to the view of that type; in a compile for any other type
\* no rule is put in the group.
C21_AssemblerOnlyForMusic ==
  \A c \in DOMAIN compiles : \A n \in DOMAIN compiles[c].nodes :
    LET node == compiles[c].nodes[n] IN
    /\ node.whereclause # <<>> =>
         /\ node.strType \in {"artists", "albums", "songs"}
         /\ \E i \in PlainRules(node.rules) :
              ~NativeToView(node.rules[i].field, MediaTypeFromString(node.strType))
    /\ node.strType \notin {"artists", "albums", "songs"} => node.joined = <<>>

\* an "albums" compile assembled the combined clause for a role rule, which
\* has no column in the view of albums
C21_Witness ==
  \E c \in DOMAIN compiles : \E n \in DOMAIN compiles[c].nodes :
    LET node == compiles[c].nodes[n] IN
    /\ node.strType = "albums"
    /\ node.whereclause # <<>>
    /\ node.whereclause[1] # <<>>
    /\ \E k \in DOMAIN node.joined : node.rules[node.joined[k]].field = FieldRole

\* the group of the call has a role rule of that value, negated or not
HasRoleRule(value, negated) ==
  \E i \in DOMAIN ruleCall.self.rules :
    LET r == ruleCall.self.rules[i] IN
    r.field = FieldRole /\ r.parameter = value /\ IsNegated(r.operator) = negated

\* the last role rule of that value in the group of the call is negated or not
LastRoleRuleIs(value, negated) ==
  LET i == LastRoleRule(ruleCall.self, value) IN
  i # 0 /\ IsNegated(ruleCall.self.rules[i].operator) = negated

RolesReturned == ruleCall.op = "GetRolesWhereClause" /\ returned # <<>>

\* the role rules of the group are all "albumartist" or "artist" rules
OnlyArtistRoles ==
  \A i \in DOMAIN ruleCall.self.rules :
    ruleCall.self.rules[i].field = FieldRole
      => ruleCall.self.rules[i].parameter \in {"albumartist", "artist"}

\* C22 as stated: under AND without a role rule "%", a negated "albumartist"
\* or a plain "artist" role rule disables the album artist route, a negated
\* "artist" or a plain "albumartist" role rule disables the song artist
\* route; under OR these role rules disable neither route.
C22_RoleRuleDisablesRoute ==
  RolesReturned =>
    /\ (ruleCall.self.type = CombinationAnd /\ ~HasRoleRule("%", FALSE)) =>
         /\ (HasRoleRule("albumartist", TRUE) \/ HasRoleRule("artist", FALSE))
              => ~returned[1].bAlbumArtists
         /\ (HasRoleRule("artist", TRUE) \/ HasRoleRule("albumartist", FALSE))
              => ~returned[1].bSongArtists
    /\ (ruleCall.self.type = CombinationOr /\ OnlyArtistRoles) =>
         returned[1].bAlbumArtists /\ returned[1].bSongArtists

\* C22, amended: under AND without a role rule "%", the last role rule of each
\* value decides; the song artist route is disabled exactly when the last
\* "artist" rule is negated or the last "albumartist" rule is plain; the album
\* artist route is disabled when the last "albumartist" rule is negated or the
\* last "artist" rule is plain, unless the song artist route is disabled as
\* well, and then the album artist route stays enabled; under OR these role
\* rules disable neither route.
C22_LastRoleRuleDisablesRoute ==
  RolesReturned =>
    /\ (ruleCall.self.type = CombinationAnd /\ ~HasRoleRule("%", FALSE)) =>
         LET noSong == LastRoleRuleIs("artist", TRUE)
                         \/ LastRoleRuleIs("albumartist", FALSE)
             noAlbum == LastRoleRuleIs("albumartist", TRUE)
                          \/ LastRoleRuleIs("artist", FALSE)
         IN /\ returned[1].bSongArtists = ~noSong
            /\ (noAlbum /\ ~noSong) => ~returned[1].bAlbumArtists
            /\ noSong => returned[1].bAlbumArtists
    /\ (ruleCall.self.type = CombinationOr /\ OnlyArtistRoles) =>
         returned[1].bAlbumArtists /\ returned[1].bSongArtists

\* under AND a negated "albumartist" role rule left only the song artist route
C22_Witness ==
  /\ RolesReturned
  /\ ruleCall.self.type = CombinationAnd
  /\ ruleCall.self.rules = <<RoleRule("albumartist", OPERATOR_DOES_NOT_EQUAL)>>
  /\ ~returned[1].bAlbumArtists
  /\ returned[1].bSongArtists

\* C23: whatever the role rules and the combinator, GetRolesWhereClause
\* returns with the album artist route or the song artist route enabled; when
\* the "albumartist" and "artist" role rules disable both, the album artist
\* route is the one enabled on return.
C23_OneRouteEnabled ==
  RolesReturned =>
    /\ returned[1].bAlbumArtists \/ returned[1].bSongArtists
    /\ (/\ ruleCall.self.type = CombinationAnd
        /\ ~HasRoleRule("%", FALSE)
        /\ LastRoleRuleIs("artist", TRUE) \/ LastRoleRuleIs("albumartist", FALSE)
        /\ LastRoleRuleIs("albumartist", TRUE) \/ LastRoleRuleIs("artist", FALSE))
         => returned[1].bAlbumArtists /\ ~returned[1].bSongArtists

\* under AND a plain "albumartist" and a plain "artist" role rule, each
\* disabling one route, left the album artist route
C23_Witness ==
  /\ RolesReturned
  /\ ruleCall.self.type = CombinationAnd
  /\ ruleCall.self.rules = <<RoleRule("albumartist", OPERATOR_EQUALS),
                             RoleRule("artist", OPERATOR_EQUALS)>>
  /\ returned[1].bAlbumArtists
  /\ ~returned[1].bSongArtists

\* C24: a role rule "%" in the group switches role filtering off whatever the
\* other role rules: both routes are enabled and the role clause returned is
\* empty, without the condition on the primary role and without any of the
\* named role rules.
C24_WildcardDisablesRoles ==
  (RolesReturned /\ HasRoleRule("%", FALSE)) =>
    /\ returned[1].bAlbumArtists
    /\ returned[1].bSongArtists
    /\ returned[1].roleClause = <<>>

\* a group with a "composer" role rule, a negated "albumartist" role rule and
\* a role rule "%"
C24_Witness ==
  /\ RolesReturned
  /\ ruleCall.self.type = CombinationAnd
  /\ ruleCall.self.rules = <<RoleRule("composer", OPERATOR_EQUALS),
                             RoleRule("albumartist", OPERATOR_DOES_NOT_EQUAL),
                             RoleRule("%", OPERATOR_EQUALS)>>
  /\ returned[1].roleClause = <<>>
  /\ returned[1].bAlbumArtists
  /\ returned[1].bSongArtists

\* C29: for a group without a role rule "%" and without a role rule of a value
\* other than "albumartist" and "artist", a group without role rules included,
\* GetRolesWhereClause returns "song_artist.idRole = 1" and clears the flag for
\* the join of the role table and the flag for role rules.
C29_PrimaryRoleByDefault ==
  (RolesReturned /\ ~HasRoleRule("%", FALSE) /\ OnlyArtistRoles) =>
    /\ returned[1].roleClause = <<"song_artist.idRole = 1">>
    /\ ~returned[1].bJoinRole
    /\ ~returned[1].bRoleRules

\* a group whose only role rule is a negated "artist" role rule
C29_Witness ==
  /\ RolesReturned
  /\ ruleCall.self.rules = <<ArtistRule, RoleRule("artist", OPERATOR_DOES_NOT_EQUAL)>>
  /\ returned[1].roleClause = <<"song_artist.idRole = 1">>
  /\ ~returned[1].bJoinRole
  /\ ~returned[1].bRoleRules

\* the band of widths of resolution r when the bands start at t4, t3, t2, t1
BandFrom(r, t4, t3, t2, t1) ==
  IF r >= t4 THEN <<1921, INT_MAX>>
  ELSE IF r >= t3 THEN <<1281, 1920>>
  ELSE IF r >= t2 THEN <<961, 1280>>
  ELSE IF r >= t1 THEN <<721, 960>>
  ELSE <<0, 720>>

\* the check returned tests the width against the band as the operator asks
TestsBand(band) ==
  LET operator == ruleCall.rule.operator
      check == returned[1]
  IN /\ operator = OPERATOR_EQUALS =>
          check = <<[compare |-> ">=", bound |-> band[1]], " AND ",
                    [compare |-> "<=", bound |-> band[2]]>>
     /\ operator = OPERATOR_DOES_NOT_EQUAL =>
          check = <<[compare |-> "<", bound |-> band[1]], " OR ",
                    [compare |-> ">", bound |-> band[2]]>>
     /\ operator = "lessthan" =>
          check = <<[compare |-> "<", bound |-> band[1]]>>
     /\ operator = "greaterthan" =>
          check = <<[compare |-> ">", bound |-> band[2]]>>

ResolutionReturned ==
  /\ ruleCall.op = "GetVideoResolutionQuery"
  /\ returned # <<>>

\* C26 as stated: the bands of GetVideoResolutionQuery start at 2161, 1081,
\* 721 and 541.
C26_BandsFrom2161 ==
  ResolutionReturned =>
    TestsBand(BandFrom(Strtol(ruleCall.parameter), 2161, 1081, 721, 541))

\* C26: GetVideoResolutionQuery puts the parsed parameter r in the band
\* 1921..INT_MAX for r >= 2160, 1281..1920 for r >= 1080, 961..1280 for
\* r >= 720, 721..960 for r >= 540 and 0..720 otherwise; equals asks for
\* min <= width <= max, does not equal for width < min or width > max, less
\* than for width < min, greater than for width > max.
C26_BandsFrom2160 ==
  ResolutionReturned =>
    TestsBand(BandFrom(Strtol(ruleCall.parameter), 2160, 1080, 720, 540))

\* "is not 540" asks for a width outside 721..960
C26_Witness ==
  /\ ResolutionAsked(OPERATOR_DOES_NOT_EQUAL, <<"5", "4", "0">>)
  /\ returned[1] = <<[compare |-> "<", bound |-> 721], " OR ",
                     [compare |-> ">", bound |-> 960]>>

\* C30: every Show call that opens the dialog opens it with the defaults
\* (apply to all in view, skip scraped on, replace all on, ignore NFO off,
\* replace art off) changed only by its fixedApply argument, whatever was
\* chosen in the Show calls before it and however they were closed.
C30_ShowStartsFromDefaults ==
  (dialog.pc = "open" /\ dialog.changes = 0) =>
    /\ dialog.m_bReplaceAll
    /\ ~dialog.m_bIgnoreNFOFiles
    /\ ~dialog.m_bReplaceArt
    /\ dialog.m_mediaType = dialog.mediatype
    /\ IF dialog.fixedApply >= 0
       THEN /\ dialog.m_bFixedApply
            /\ dialog.m_applyToItems = dialog.fixedApply
            /\ ~dialog.m_bSkipScraped
       ELSE /\ ~dialog.m_bFixedApply
            /\ dialog.m_applyToItems = REFRESH_ALLVIEW
            /\ dialog.m_bSkipScraped

\* the dialog opens for the second time after a Show call in which replace
\* art and ignore NFO were chosen
C30_Witness ==
  /\ dialog.pc = "open"
  /\ dialog.changes = 0
  /\ dialog.shows = 2
  /\ {"SCAN_REPLACEART", "SCAN_INGORENFO"} \subseteq dialog.earlier
  /\ ~dialog.m_bReplaceArt
  /\ ~dialog.m_bIgnoreNFOFiles

\* C28: one set guards the whole compile and a playlist enters it when a rule
\* first names it, before it is loaded and before its type is tested: every
\* playlist named by a rule is in the set when the compile returns, and every
\* rule that names a playlist named by a rule reached before it, in the same
\* combination or in another branch, gives an empty fragment, also when the
\* playlist failed to load or was of another type.
C28_LaterReferencesEmpty ==
  \A n \in DOMAIN compiles :
    LET references == compiles[n].references IN
    /\ \A k \in DOMAIN references :
         references[k].file \in compiles[n].referencedPlaylists
    /\ \A j, k \in DOMAIN references :
         (j < k /\ references[j].file = references[k].file)
           => references[k].currentRule = <<>>

\* a playlist that fails to load is named by the rule of a branch and by two
\* sibling rules of the root: it is in the set, was never loaded and all
\* three rules gave an empty fragment
C28_Witness ==
  /\ compiles # <<>>
  /\ LET references == compiles[1].references IN
     /\ Len(references) = 3
     /\ xsp.root.combinations # <<>>
     /\ xsp.file = NoFile
     /\ ~store[1].ok
     /\ \A k \in 1..3 : references[k] = [file |-> 1, currentRule |-> <<>>]
     /\ compiles[1].referencedPlaylists = {1}
     /\ compiles[1].loaded = <<>>

\* the "albums" groups with an artist rule and no album artist rule that the
\* assembler compiled
ArtistGroups ==
  {node \in UNION {Range(compiles[n].nodes) : n \in DOMAIN compiles} :
     /\ node.strType = "albums"
     /\ node.whereclause # <<>>
     /\ ArtistRule \in Range(node.joinedRules)
     /\ AlbumArtistRule \notin Range(node.joinedRules)}

\* a role rule of the group disabled one of the two routes
RouteDisabled(node) ==
  LET roles == GetRolesWhereClause(Flat(node.type, node.joinedRules))
  IN ~roles.bAlbumArtists \/ ~roles.bSongArtists

\* C25 as stated: the assembler emits the album artist route and the song
\* artist route joined by OR whenever the combination is OR or no role rule
\* disabled a route, and emits one route alone only when a role rule disabled
\* the other.
C25_BothRoutesUnlessDisabled ==
  \A node \in ArtistGroups :
    LET emitted == Range(node.whereclause[1])
        album == emitted \cap AlbumArtistRoute # {}
        song == emitted \cap SongArtistRoute # {}
    IN /\ (node.type = CombinationOr \/ ~RouteDisabled(node))
            => (album /\ song /\ " OR " \in emitted)
       /\ (album # song) => RouteDisabled(node)

\* a genre rule with n >= 1 values was formatted for "songs"
GenreOnSongs ==
  /\ ruleCall.op = "FormatParameters"
  /\ ruleCall.rule.field = FieldGenre
  /\ ruleCall.strType = "songs"
  /\ Len(ruleCall.rule.parameter) >= 1
  /\ returned # <<>>

\* the comparison of the genre with value k of the rule
Comparison(k) == <<"genre", ruleCall.oper>> \o ruleCall.rule.parameter[k]

RECURSIVE ComparisonsOred(_)
\* the comparisons of the values 1..k joined by OR
ComparisonsOred(k) ==
  IF k = 1 THEN Comparison(1)
  ELSE ComparisonsOred(k - 1) \o <<" OR ">> \o Comparison(k)

RECURSIVE NotExistsAnded(_)
\* a NOT EXISTS subquery on the genres of the song for each of the values
\* 1..k, joined by AND
NotExistsAnded(k) ==
  LET one == <<" NOT ", "EXISTS (", "song_genre JOIN genre", " AND ">>
               \o Comparison(k) \o <<")">>
  IN IF k = 1 THEN one ELSE NotExistsAnded(k - 1) \o <<" AND ">> \o one

\* a condition without the parentheses around it
Unwrapped(condition) ==
  IF Len(condition) >= 2 /\ condition[1] = "(" /\ condition[Len(condition)] = ")"
  THEN SubSeq(condition, 2, Len(condition) - 1)
  ELSE condition

\* C27: a genre rule on "songs" with n >= 1 values is, when not negated, one
\* EXISTS subquery on the genres of the song whose condition is the n
\* comparisons joined by OR and, when negated, n NOT EXISTS subqueries, one for
\* each value, joined by AND.
C27_GenreValues ==
  GenreOnSongs =>
    LET n == Len(ruleCall.rule.parameter)
        query == returned[1]
    IN IF ruleCall.negate = ""
       THEN /\ Len(query) > 4
            /\ SubSeq(query, 1, 3) = <<"EXISTS (", "song_genre JOIN genre", " AND ">>
            /\ query[Len(query)] = ")"
            /\ Unwrapped(SubSeq(query, 4, Len(query) - 1)) = ComparisonsOred(n)
            /\ Cardinality({k \in DOMAIN query : query[k] = "EXISTS ("}) = 1
       ELSE query = NotExistsAnded(n)

\* a rule "genre is not Rock / Jazz / Rock" gave three NOT EXISTS subqueries
C27_Witness ==
  /\ GenreOnSongs
  /\ ruleCall.rule.operator = OPERATOR_DOES_NOT_EQUAL
  /\ ruleCall.rule.parameter = <<<<"Rock">>, <<"Jazz">>, <<"Rock">>>>
  /\ Cardinality({k \in DOMAIN returned[1] : returned[1][k] = "EXISTS ("}) = 3
  /\ Cardinality({k \in DOMAIN returned[1] : returned[1][k] = " NOT "}) = 3

====
